---- MODULE Spec2Model ----
(***************************************************************************)
(* Row-level authorization of the asset domain (src/assets.py) and the     *)
(* grant management endpoints (src/views.py).                              *)
(*                                                                         *)
(* Three specifications share the variables:                               *)
(*   Spec            the AssetUserAccess create_many / delete_many          *)
(*                   endpoints acting on the grant store;                   *)
(*   SpecScope       the access policies applied to a user whose            *)
(*                   permissions and grants are drawn by Init;              *)
(*   SpecProcurement the ProcurementUserAccess create_many upsert.          *)
(***************************************************************************)
EXTENDS Integers, Sequences, FiniteSets

VARIABLES
    accesses,      \* AssetUserAccess rows: [id, user, country, acted_area, mode]
    nextId,        \* next primary key of AssetUserAccess
    perms,         \* user -> set of permission names (User.has_perm)
    reqUser,       \* request.user of the policy calls of SpecScope
    resp,          \* outcome of the last operation
    procAccesses,  \* ProcurementUserAccess rows: [id, user, country, mode]
    procNextId,    \* next primary key of ProcurementUserAccess
    jobs,          \* LongRunningJob rows, by id
    tasks          \* job ids handed to export_assets_inventory.delay, not yet run

vars == <<accesses, nextId, perms, reqUser, resp, procAccesses, procNextId, jobs, tasks>>

-----------------------------------------------------------------------------
(* Bounds *)

\* SpecScope: number of grants held by the requesting user.
MaxGrants == 2
\* Spec: highest AssetUserAccess id ever allocated.
MaxId == 3
\* SpecProcurement: highest ProcurementUserAccess id ever allocated.
MaxProcId == 3
\* SpecExport: number of export requests that create a LongRunningJob.
MaxJobs == 2

-----------------------------------------------------------------------------
(* Values *)

\* Python None / SQL NULL.
NULL == "NULL"

CountrySeq == <<NULL, "X", "Y">>
AreaSeq == <<NULL, "A", "B">>
ModeSeq == <<"OFFICER", "MANAGER", "CONTROLLER", "INVENTORY_VALIDATOR", "DISPOSAL_VALIDATOR">>

Range(s) == {s[i] : i \in DOMAIN s}
Idx(s, x) == CHOOSE i \in DOMAIN s : s[i] = x

\* Country.code_iso and ACTEDArea.code of the rows that exist.
Countries == Range(CountrySeq) \ {NULL}
Areas == Range(AreaSeq) \ {NULL}
\* AssetUserAccess.Mode
Modes == Range(ModeSeq)

\* A code that names no Country / no ACTEDArea row.
UnknownCountryCode == "ZZ"
UnknownAreaCode == "QQ"

\* Country.objects.filter(code_iso=code).first()
CountryByCode(code) == IF code \in Countries THEN code ELSE NULL
\* ACTEDArea.objects.filter(code=code).first()
AreaByCode(code) == IF code \in Areas THEN code ELSE NULL

Users == {"admin", "alice", "bob"}

AccessPolicyAction == {"READ", "EDIT", "DELETE", "PLAY_TRANSITION"}

-----------------------------------------------------------------------------
(* Permissions *)

BasePerms == {
    "view_asset", "change_asset", "delete_asset", "add_asset",
    "view_assetallocationprojectcontract", "change_assetallocationprojectcontract",
    "delete_assetallocationprojectcontract", "add_assetallocationprojectcontract",
    "view_assetallocationpremises", "change_assetallocationpremises",
    "delete_assetallocationpremises", "add_assetallocationpremises",
    "view_assetallocationusage", "change_assetallocationusage",
    "delete_assetallocationusage", "add_assetallocationusage",
    "view_inventory", "change_inventory", "delete_inventory", "add_inventory",
    "view_disposalplan", "change_disposalplan", "delete_disposalplan", "add_disposalplan",
    "view_assetmaintenance", "change_assetmaintenance",
    "delete_assetmaintenance", "add_assetmaintenance",
    "view_assetuseraccess", "delete_assetuseraccess", "add_assetuseraccess",
    "add_procurementuseraccess"}

AllPerms == {
    "view_asset_all", "change_asset_all", "delete_asset_all", "add_asset_all",
    "view_assetallocationprojectcontract_all", "change_assetallocationprojectcontract_all",
    "delete_assetallocationprojectcontract_all", "add_assetallocationprojectcontract_all",
    "view_assetallocationpremises_all", "change_assetallocationpremises_all",
    "delete_assetallocationpremises_all", "add_assetallocationpremises_all",
    "view_assetallocationusage_all", "change_assetallocationusage_all",
    "delete_assetallocationusage_all", "add_assetallocationusage_all",
    "view_inventory_all", "change_inventory_all", "delete_inventory_all", "add_inventory_all",
    "view_disposalplan_all", "change_disposalplan_all", "delete_disposalplan_all",
    "view_assetmaintenance_all", "change_assetmaintenance_all",
    "delete_assetmaintenance_all", "add_assetmaintenance_all",
    "view_assetuseraccess_all", "delete_assetuseraccess_all", "add_assetuseraccess_all",
    "add_procurementuseraccess_all"}

PurchaseNumberPerm == "change_asset_purchase_number"
AllTransitionsPerm == "change_asset_all_transitions"

\* The permission sets a requesting user is drawn from in SpecScope.
Profiles == {
    {},
    BasePerms,
    {"view_asset", PurchaseNumberPerm},
    BasePerms \cup {PurchaseNumberPerm, "change_disposal_plan_all_transitions"},
    BasePerms \cup AllPerms
        \cup {PurchaseNumberPerm, AllTransitionsPerm, "change_inventory_all_transitions"}}

\* user.has_perm(perm); None holds nothing.
HasPerm(user, perm) == user # NULL /\ perm \in perms[user]

-----------------------------------------------------------------------------
(* Tables the policies filter.  Every combination of the columns the       *)
(* policies read occurs in one row.                                        *)

AssetStateSeq == <<"IN_STOCK", "IN_USE">>
InventoryStateSeq == <<"ON_GOING", "PENDING_VALIDATION", "VALIDATED">>
DisposalPlanStateSeq == <<"DRAFT", "UNDER_MANAGER_VALIDATION", "UNDER_FINANCE_VALIDATION", "DONE">>
AssetMaintenanceStateSeq == <<"ON_GOING", "DONE">>
CreatedBySeq == <<"alice", "bob">>
BoolSeq == <<FALSE, TRUE>>

\* Column values of row id in a table whose third column ranges over s.
ColCountry(id) == CountrySeq[((id - 1) % Len(CountrySeq)) + 1]
ColArea(id) == AreaSeq[(((id - 1) \div Len(CountrySeq)) % Len(AreaSeq)) + 1]
ColThird(id, s) == s[((id - 1) \div (Len(CountrySeq) * Len(AreaSeq))) + 1]
TableIds(s) == 1..(Len(CountrySeq) * Len(AreaSeq) * Len(s))

\* Asset.objects.all(), ordered by id; acted_area is
\* current_premises.place.acted_area.
Assets == [id \in TableIds(AssetStateSeq) |->
    [id |-> id, country_mission |-> ColCountry(id), acted_area |-> ColArea(id),
     state |-> ColThird(id, AssetStateSeq)]]

\* AssetAllocationProjectContract.objects.all(); geography is the asset's.
AssetAllocationProjectContracts == {
    [id |-> id, country_mission |-> ColCountry(id), acted_area |-> ColArea(id),
     created_by |-> ColThird(id, CreatedBySeq)] : id \in TableIds(CreatedBySeq)}

\* AssetAllocationPremises.objects.all(); waiting_transfer: some confirmation
\* of type ASSET_TRANSFER_PREMISES in state WAITING.
AssetAllocationPremisesRows == {
    [id |-> id, country_mission |-> ColCountry(id), acted_area |-> ColArea(id),
     waiting_transfer |-> ColThird(id, BoolSeq)] : id \in TableIds(BoolSeq)}

\* AssetAllocationUsage.objects.all()
AssetAllocationUsages == {
    [id |-> id, country_mission |-> ColCountry(id), acted_area |-> ColArea(id),
     created_by |-> ColThird(id, CreatedBySeq)] : id \in TableIds(CreatedBySeq)}

\* Inventory.objects.all(); geography is the premises'.
Inventories == {
    [id |-> id, country_mission |-> ColCountry(id), acted_area |-> ColArea(id),
     state |-> ColThird(id, InventoryStateSeq)] : id \in TableIds(InventoryStateSeq)}

\* DisposalPlan.objects.all()
DisposalPlans == {
    [id |-> id, country_mission |-> ColCountry(id), acted_area |-> ColArea(id),
     state |-> ColThird(id, DisposalPlanStateSeq)] : id \in TableIds(DisposalPlanStateSeq)}

\* AssetMaintenance.objects.all(); geography is the asset's.
AssetMaintenances == {
    [id |-> id, country_mission |-> ColCountry(id), acted_area |-> ColArea(id),
     state |-> ColThird(id, AssetMaintenanceStateSeq)] : id \in TableIds(AssetMaintenanceStateSeq)}

IdsOf(rows) == {r.id : r \in rows}
IdSeq(rows) == [i \in DOMAIN rows |-> rows[i].id]

-----------------------------------------------------------------------------
(* Grant rows *)

AccessRow(id, user, country, acted_area, mode) ==
    [id |-> id, user |-> user, country |-> country, acted_area |-> acted_area, mode |-> mode]

\* AssetUserAccess.objects.filter(user=user)
UserAccesses(store, user) == {ua \in store : ua.user = user}

-----------------------------------------------------------------------------
(* Grant Predicate Builder: the terms shared by the entity policies *)

\* "Filter by acted area if specified."
AreaTerm(ua, e) ==
    ua.acted_area # NULL => (e.acted_area = ua.acted_area \/ e.acted_area = NULL)

\* "Filter by country if specified", else Q(pk__isnull=False).
CountryTerm(ua, e) ==
    IF ua.country # NULL
    THEN e.country_mission = ua.country \/ e.country_mission = NULL
    ELSE TRUE

\* queryset.filter(query).distinct() if query else Model.objects.none():
\* query is the empty Q() exactly when the user has no grant (every grant
\* adds a non-empty clause); filter(Q()) would return the whole queryset.
\* (Mutated: the filter applied to the empty Q.)
QueryOrNoneMatchAll(uas, all, matched, none) == IF uas # {} THEN matched ELSE all

QueryOrNone(uas, all, matched, none) == IF uas # {} THEN matched ELSE none

-----------------------------------------------------------------------------
(* AssetUserAccessAccessPolicy *)

\* mode__in of one grant's clause.  (Mutated: a CONTROLLER or MANAGER grant
\* reaches the CONTROLLER grants too; an OFFICER grant reads as it deletes.)
UserAccessModesWithController(ua, action) ==
    IF action = "READ" /\ ua.mode = "OFFICER"
    THEN {"OFFICER", "INVENTORY_VALIDATOR"}
    ELSE IF ua.mode \notin {"CONTROLLER", "MANAGER"}
         THEN {ua.mode}
         ELSE Modes

UserAccessModesSameForRead(ua, action) ==
    IF ua.mode \notin {"CONTROLLER", "MANAGER"}
    THEN {ua.mode}
    ELSE Modes \ {"CONTROLLER"}

UserAccessModes(ua, action) ==
    IF action = "READ" /\ ua.mode = "OFFICER"
    THEN {"OFFICER", "INVENTORY_VALIDATOR"}
    ELSE IF ua.mode \notin {"CONTROLLER", "MANAGER"}
         THEN {ua.mode}
         ELSE Modes \ {"CONTROLLER"}

UserAccessClause(ua, action, g) ==
    /\ ua.acted_area # NULL => g.acted_area = ua.acted_area
    /\ ua.country # NULL => g.country = ua.country
    /\ g.mode \in UserAccessModes(ua, action)

AssetUserAccessAccessPolicy_get_qs_for_user(store, user, action) ==
    IF user = NULL THEN {}
    ELSE IF action = "READ" /\ HasPerm(user, "view_assetuseraccess_all") THEN store
    ELSE IF action = "DELETE" /\ HasPerm(user, "delete_assetuseraccess_all") THEN store
    ELSE LET uas == UserAccesses(store, user) IN QueryOrNone(uas, store,
            {g \in store : \E ua \in uas : UserAccessClause(ua, action, g)},
            {})

\* The lookups compare codes; a None code becomes an IS NULL test, which only
\* a grant that is NULL on that axis passes.  (Mutated: the grant's mode must
\* be the requested one.)
CreateAccessMatchNoSupervisor(ua, country_code, acted_area_code, mode) ==
    /\ (ua.acted_area = acted_area_code \/ ua.acted_area = NULL)
    /\ (ua.country = country_code \/ ua.country = NULL)
    /\ ua.mode = mode

\* (Mutated: the country filter is dropped.)
CreateAccessMatchAnyCountry(ua, country_code, acted_area_code, mode) ==
    /\ (ua.acted_area = acted_area_code \/ ua.acted_area = NULL)
    /\ (ua.mode = mode \/ ua.mode \in {"CONTROLLER", "MANAGER"})

CreateAccessMatch(ua, country_code, acted_area_code, mode) ==
    /\ (ua.acted_area = acted_area_code \/ ua.acted_area = NULL)
    /\ (ua.country = country_code \/ ua.country = NULL)
    /\ (ua.mode = mode \/ ua.mode \in {"CONTROLLER", "MANAGER"})

\* (Mutated: no "Only admin can create controller accesses".)
user_can_create_accessNoControllerRule(store, user, country_code, acted_area_code, mode) ==
    IF user = NULL THEN FALSE
    ELSE IF HasPerm(user, "add_assetuseraccess_all") THEN TRUE
    ELSE \E ua \in UserAccesses(store, user) :
            CreateAccessMatch(ua, country_code, acted_area_code, mode)

user_can_create_access(store, user, country_code, acted_area_code, mode) ==
    IF user = NULL THEN FALSE
    ELSE IF HasPerm(user, "add_assetuseraccess_all") THEN TRUE
    ELSE IF mode = "CONTROLLER" THEN FALSE
    ELSE \E ua \in UserAccesses(store, user) :
            CreateAccessMatch(ua, country_code, acted_area_code, mode)

\* (Mutated: every existing grant may be deleted.)
user_can_delete_accessAnyExisting(store, user, user_access_id) ==
    \E g \in store : g.id = user_access_id

user_can_delete_access(store, user, user_access_id) ==
    \E g \in AssetUserAccessAccessPolicy_get_qs_for_user(store, user, "DELETE") :
        g.id = user_access_id

-----------------------------------------------------------------------------
(* AssetAccessPolicy *)

\* One grant's clause.  (Mutated: the country filter without the
\* country_mission__isnull alternative.)
AssetClauseExactCountry(ua, action, e) ==
    /\ action = "DELETE" =>
        IF ua.mode \notin {"MANAGER", "CONTROLLER"} THEN FALSE ELSE e.state = "IN_STOCK"
    /\ ~(ua.mode \in {"INVENTORY_VALIDATOR", "DISPOSAL_VALIDATOR"} /\ action \in {"EDIT", "DELETE"})
    /\ AreaTerm(ua, e)
    /\ (ua.country # NULL => e.country_mission = ua.country)

\* (Mutated: no "Only controllers and managers can delete an asset".)
AssetClauseAnyModeDeletes(ua, action, e) ==
    /\ action = "DELETE" => e.state = "IN_STOCK"
    /\ AreaTerm(ua, e)
    /\ CountryTerm(ua, e)

AssetClause(ua, action, e) ==
    /\ action = "DELETE" =>
        IF ua.mode \notin {"MANAGER", "CONTROLLER"} THEN FALSE ELSE e.state = "IN_STOCK"
    /\ ~(ua.mode \in {"INVENTORY_VALIDATOR", "DISPOSAL_VALIDATOR"} /\ action \in {"EDIT", "DELETE"})
    /\ AreaTerm(ua, e)
    /\ CountryTerm(ua, e)

\* (Mutated: the clauses of the grants joined with AND.)
AssetGrantScopeEveryGrant(store, user, action) ==
    LET uas == UserAccesses(store, user) IN QueryOrNone(uas, Assets,
        SelectSeq(Assets, LAMBDA e : \A ua \in uas : AssetClause(ua, action, e)),
        << >>)

\* "Otherwise need to filter according to AssetUserAccess."
AssetGrantScope(store, user, action) ==
    LET uas == UserAccesses(store, user) IN QueryOrNone(uas, Assets,
        SelectSeq(Assets, LAMBDA e : \E ua \in uas : AssetClause(ua, action, e)),
        << >>)

\* The rows of the queryset in id order.  The filter joins forward foreign
\* keys only, so it yields a row of the table at most once.
AssetAccessPolicy_get_qs_for_user(store, user, action) ==
    IF \/ user = NULL
       \/ (action = "READ" /\ ~(HasPerm(user, "view_asset") \/ HasPerm(user, "view_asset_all")))
       \/ (action = "EDIT" /\ ~(HasPerm(user, "change_asset") \/ HasPerm(user, "change_asset_all")
                                \/ HasPerm(user, PurchaseNumberPerm)))
       \/ (action = "DELETE" /\ ~(HasPerm(user, "delete_asset") \/ HasPerm(user, "delete_asset_all")))
    THEN << >>
    ELSE IF action = "READ" /\ HasPerm(user, "view_asset_all") THEN Assets
    ELSE IF action = "EDIT" /\ HasPerm(user, "change_asset_all") THEN Assets
    ELSE IF action = "DELETE" /\ HasPerm(user, "delete_asset_all") THEN Assets
    ELSE IF action = "EDIT" /\ HasPerm(user, PurchaseNumberPerm) THEN Assets
    ELSE AssetGrantScope(store, user, action)

\* Asset.Transition names: DISPOSE, the two disposal-related ones, the nine
\* of allowed_transitions, and one name that is on none of the lists.
allowed_transitions ==
    <<"ASSIGN", "ACCEPT_ASSIGN", "ACCEPT_UNASSIGN", "REJECT", "UNASSIGN",
      "SEND_MAINTENANCE", "END_MAINTENANCE_TO_STOCK", "SEND_REPAIR",
      "END_REPAIR_TO_STOCK">>

TransitionNames ==
    {"DISPOSE", "START_DISPOSAL", "CANCEL_DISPOSAL", "END_DISPOSAL"}
        \cup Range(allowed_transitions)

\* AssetAccessPolicy._get_accesses_for_country_and_area
get_accesses_for_country_and_area(store, user, country, acted_area) ==
    {ua \in store :
        /\ ua.user = user
        /\ (ua.acted_area = NULL \/ ua.acted_area = acted_area)
        /\ (ua.country = NULL \/ ua.country = country)}

\* (Mutated: the validator modes decide like the three staff modes.)
TransitionForAccessAnyMode(user_access, transition) ==
    IF transition \in {"START_DISPOSAL", "CANCEL_DISPOSAL"} THEN "True"
    ELSE IF transition \in Range(allowed_transitions) THEN "True" ELSE "False"

\* One turn of the loop over the accesses: what it returns, or "continue".
TransitionForAccess(user_access, transition) ==
    IF user_access.mode \in {"OFFICER", "MANAGER", "CONTROLLER"}
    THEN IF transition \in {"START_DISPOSAL", "CANCEL_DISPOSAL"} THEN "True"
         ELSE IF transition \in Range(allowed_transitions) THEN "True" ELSE "False"
    ELSE "continue"

\* The loop returns at the first access that does not continue; the queryset
\* has no order, so the return is that of any of them.
scope_workflow_transition_check(store, asset, transition, user) ==
    IF user = NULL THEN {FALSE}
    ELSE IF HasPerm(user, AllTransitionsPerm) THEN {TRUE}
    ELSE IF transition = "DISPOSE" THEN {FALSE}
    ELSE LET returns == {TransitionForAccess(ua, transition) :
                ua \in get_accesses_for_country_and_area(
                    store, user, asset.country_mission, asset.acted_area)} \ {"continue"}
         IN  IF returns = {} THEN {FALSE} ELSE {r = "True" : r \in returns}

\* The serializer fields of an Asset: field name -> read_only flag.
AssetFields == {"code", "name", "state", "purchase_number"}
editable_fields == {"purchase_number"}

\* asset is "instance" (an Asset), "list" (a list of Assets) or "none".
\* (Mutated: no editable field.)
set_readonly_fieldsAllReadOnly(asset, fields, user) ==
    IF asset # "instance" THEN fields
    ELSE IF \/ user = NULL
            \/ HasPerm(user, "change_asset")
            \/ HasPerm(user, "change_asset_all")
            \/ ~HasPerm(user, PurchaseNumberPerm)
         THEN fields
         ELSE [f \in DOMAIN fields |-> TRUE]

set_readonly_fields(asset, fields, user) ==
    IF asset # "instance" THEN fields
    ELSE IF \/ user = NULL
            \/ HasPerm(user, "change_asset")
            \/ HasPerm(user, "change_asset_all")
            \/ ~HasPerm(user, PurchaseNumberPerm)
         THEN fields
         ELSE [f \in DOMAIN fields |-> IF f \notin editable_fields THEN TRUE ELSE fields[f]]

-----------------------------------------------------------------------------
(* AssetAllocationProjectContractAccessPolicy *)

\* (Mutated: no "Officers can only EDIT/DELETE their own allocation".)
ProjectContractClauseNoOwnerRule(ua, user, action, e) ==
    /\ AreaTerm(ua, e)
    /\ CountryTerm(ua, e)

ProjectContractClause(ua, user, action, e) ==
    /\ (ua.mode = "OFFICER" /\ action \in {"EDIT", "DELETE"}) => e.created_by = user
    /\ AreaTerm(ua, e)
    /\ CountryTerm(ua, e)

AssetAllocationProjectContractAccessPolicy_get_qs_for_user(store, user, action) ==
    IF \/ user = NULL
       \/ (action = "READ" /\ ~(HasPerm(user, "view_assetallocationprojectcontract")
                                \/ HasPerm(user, "view_assetallocationprojectcontract_all")))
       \/ (action = "EDIT" /\ ~(HasPerm(user, "change_assetallocationprojectcontract")
                                \/ HasPerm(user, "change_assetallocationprojectcontract_all")))
       \/ (action = "DELETE" /\ ~(HasPerm(user, "delete_assetallocationprojectcontract")
                                  \/ HasPerm(user, "delete_assetallocationprojectcontract_all")))
    THEN {}
    ELSE IF action = "READ" /\ HasPerm(user, "view_assetallocationprojectcontract_all")
         THEN AssetAllocationProjectContracts
    ELSE IF action = "EDIT" /\ HasPerm(user, "change_assetallocationprojectcontract_all")
         THEN AssetAllocationProjectContracts
    ELSE IF action = "DELETE" /\ HasPerm(user, "delete_assetallocationprojectcontract_all")
         THEN AssetAllocationProjectContracts
    ELSE LET uas == UserAccesses(store, user) IN QueryOrNone(uas, AssetAllocationProjectContracts,
            {e \in AssetAllocationProjectContracts :
                \E ua \in uas : ProjectContractClause(ua, user, action, e)}, {})

-----------------------------------------------------------------------------
(* AssetAllocationPremisesAccessPolicy *)

PremisesClause(ua, action, e) ==
    /\ (ua.mode = "OFFICER" /\ action \in {"EDIT", "DELETE"}) => e.waiting_transfer
    /\ AreaTerm(ua, e)
    /\ CountryTerm(ua, e)

AssetAllocationPremisesAccessPolicy_get_qs_for_user(store, user, action) ==
    IF \/ user = NULL
       \/ (action = "READ" /\ ~(HasPerm(user, "view_assetallocationpremises")
                                \/ HasPerm(user, "view_assetallocationpremises_all")))
       \/ (action = "EDIT" /\ ~(HasPerm(user, "change_assetallocationpremises")
                                \/ HasPerm(user, "change_assetallocationpremises_all")))
       \/ (action = "DELETE" /\ ~(HasPerm(user, "delete_assetallocationpremises")
                                  \/ HasPerm(user, "delete_assetallocationpremises_all")))
    THEN {}
    ELSE IF action = "READ" /\ HasPerm(user, "view_assetallocationpremises_all")
         THEN AssetAllocationPremisesRows
    ELSE IF action = "EDIT" /\ HasPerm(user, "change_assetallocationpremises_all")
         THEN AssetAllocationPremisesRows
    ELSE IF action = "DELETE" /\ HasPerm(user, "delete_assetallocationpremises_all")
         THEN AssetAllocationPremisesRows
    ELSE LET uas == UserAccesses(store, user) IN QueryOrNone(uas, AssetAllocationPremisesRows,
            {e \in AssetAllocationPremisesRows :
                \E ua \in uas : PremisesClause(ua, action, e)}, {})

-----------------------------------------------------------------------------
(* AssetAllocationUsageAccessPolicy *)

UsageClause(ua, action, e) ==
    /\ AreaTerm(ua, e)
    /\ CountryTerm(ua, e)

AssetAllocationUsageAccessPolicy_get_qs_for_user(store, user, action) ==
    IF \/ user = NULL
       \/ (action = "READ" /\ ~(HasPerm(user, "view_assetallocationusage")
                                \/ HasPerm(user, "view_assetallocationusage_all")))
       \/ (action = "EDIT" /\ ~(HasPerm(user, "change_assetallocationusage")
                                \/ HasPerm(user, "change_assetallocationusage_all")))
       \/ (action = "DELETE" /\ ~(HasPerm(user, "delete_assetallocationusage")
                                  \/ HasPerm(user, "delete_assetallocationusage_all")))
    THEN {}
    ELSE IF action = "READ" /\ HasPerm(user, "view_assetallocationusage_all")
         THEN AssetAllocationUsages
    ELSE IF action = "EDIT" /\ HasPerm(user, "change_assetallocationusage_all")
         THEN AssetAllocationUsages
    ELSE IF action = "DELETE" /\ HasPerm(user, "delete_assetallocationusage_all")
         THEN AssetAllocationUsages
    ELSE LET uas == UserAccesses(store, user) IN QueryOrNone(uas, AssetAllocationUsages,
            {e \in AssetAllocationUsages :
                \E ua \in uas : UsageClause(ua, action, e)}, {})

-----------------------------------------------------------------------------
(* InventoryAccessPolicy *)

InventoryClause(ua, action, e) ==
    /\ (ua.mode = "OFFICER" /\ action \in {"EDIT", "DELETE"}) => e.state = "ON_GOING"
    /\ AreaTerm(ua, e)
    /\ CountryTerm(ua, e)

\* "Can't edit/delete a VALIDATED Inventory."
\* (Mutated: no "Can't edit/delete a VALIDATED Inventory".)
InventoryBaseKeepsValidated(action) == Inventories

InventoryBase(action) ==
    IF action \in {"EDIT", "DELETE"}
    THEN {e \in Inventories : e.state # "VALIDATED"}
    ELSE Inventories

InventoryAccessPolicy_get_qs_for_user(store, user, action) ==
    IF \/ user = NULL
       \/ (action = "READ" /\ ~(HasPerm(user, "view_inventory") \/ HasPerm(user, "view_inventory_all")))
       \/ (action = "EDIT" /\ ~(HasPerm(user, "change_inventory") \/ HasPerm(user, "change_inventory_all")))
       \/ (action = "DELETE" /\ ~(HasPerm(user, "delete_inventory") \/ HasPerm(user, "delete_inventory_all")))
    THEN {}
    ELSE IF action = "READ" /\ HasPerm(user, "view_inventory_all") THEN InventoryBase(action)
    ELSE IF action = "EDIT" /\ HasPerm(user, "change_inventory_all") THEN InventoryBase(action)
    ELSE IF action = "DELETE" /\ HasPerm(user, "delete_inventory_all") THEN InventoryBase(action)
    ELSE LET uas == UserAccesses(store, user) IN QueryOrNone(uas, InventoryBase(action),
            {e \in InventoryBase(action) :
                \E ua \in uas : InventoryClause(ua, action, e)}, {})

\* "Return whether the user can create an instance for this country and
\* acted area."
user_can_create_inventory(store, user, country_id, acted_area_id) ==
    IF user = NULL \/ ~(HasPerm(user, "add_inventory") \/ HasPerm(user, "add_inventory_all"))
    THEN FALSE
    ELSE IF HasPerm(user, "add_inventory_all") THEN TRUE
    ELSE \E ua \in store :
            /\ ua.user = user
            /\ ua.mode \in {"INVENTORY_VALIDATOR", "OFFICER", "MANAGER", "CONTROLLER"}
            /\ (ua.acted_area = NULL \/ ua.acted_area = acted_area_id)
            /\ (ua.country = NULL \/ ua.country = country_id)

\* The view actions of a request on inventories; metadata (OPTIONS) is in no
\* statement.
InventoryHttpActions ==
    {"list", "retrieve", "export_pdf", "create", "update", "partial_update",
     "play_transition", "destroy", "metadata"}

\* (Mutated: the permission of the statement alone allows.)
InventoryAccessPolicy_statementsCoarseOnly(store, user, http_action, inventory) ==
    /\ user # NULL
    /\ \/ http_action \in {"list", "retrieve", "export_pdf"} /\ HasPerm(user, "view_inventory")
       \/ http_action = "create" /\ HasPerm(user, "add_inventory")
       \/ /\ http_action \in {"update", "partial_update", "play_transition"}
          /\ HasPerm(user, "change_inventory")
       \/ http_action = "destroy" /\ HasPerm(user, "delete_inventory")

\* The statements: each allows an authenticated principal under all of its
\* conditions; an action no statement names is not allowed.  inventory is the
\* object of the request, or for 'create' carries the premises of the payload.
InventoryAccessPolicy_statements(store, user, http_action, inventory) ==
    /\ user # NULL
    /\ \/ /\ http_action \in {"list", "retrieve", "get_audit_log", "export_pdf", "export_inventories"}
          /\ HasPerm(user, "view_inventory")
       \/ /\ http_action \in {"create"}
          /\ HasPerm(user, "add_inventory")
          /\ user_can_create_inventory(store, user, inventory.country_mission, inventory.acted_area)
       \/ /\ http_action \in {"update", "partial_update", "play_transition"}
          /\ HasPerm(user, "change_inventory")
          /\ inventory.id \in IdsOf(InventoryAccessPolicy_get_qs_for_user(store, user, "EDIT"))
       \/ /\ http_action \in {"destroy"}
          /\ HasPerm(user, "delete_inventory")
          /\ inventory.id \in IdsOf(InventoryAccessPolicy_get_qs_for_user(store, user, "DELETE"))

\* Inventory.Transition names; REOPEN stands for the names the hook does not
\* list.
InventoryTransitionNames == {"TO_CORRECT", "VALIDATE", "SUBMIT", "REOPEN"}

\* (Mutated: officers play every transition.)
InventoryTransitionForAccessOfficerAll(user_access, transition) ==
    \/ user_access.mode = "INVENTORY_VALIDATOR" /\ transition \in {"TO_CORRECT", "VALIDATE"}
    \/ user_access.mode = "OFFICER"
    \/ user_access.mode \in {"MANAGER", "CONTROLLER"}

\* One turn of the loop over the accesses: TRUE when it returns True.
InventoryTransitionForAccess(user_access, transition) ==
    \/ user_access.mode = "INVENTORY_VALIDATOR" /\ transition \in {"TO_CORRECT", "VALIDATE"}
    \/ user_access.mode = "OFFICER" /\ transition \in {"SUBMIT"}
    \/ user_access.mode \in {"MANAGER", "CONTROLLER"}

\* InventoryAccessPolicy._get_accesses_for_country_and_area has the body of
\* the AssetAccessPolicy one.  A turn of the loop returns True or goes on, so
\* the order of the accesses does not show.
InventoryAccessPolicy_scope_workflow_transition_check(store, inventory, transition, user) ==
    IF user = NULL THEN FALSE
    ELSE IF HasPerm(user, "change_inventory_all_transitions") THEN TRUE
    ELSE \E ua \in get_accesses_for_country_and_area(
                store, user, inventory.country_mission, inventory.acted_area) :
            InventoryTransitionForAccess(ua, transition)

-----------------------------------------------------------------------------
(* InventoryAssetRelationAccessPolicy *)

\* InventoryAssetRelation.objects.all(): one relation per inventory.
InventoryAssetRelations == {[id |-> e.id, inventory |-> e.id] : e \in Inventories}

InventoryAssetRelationAccessPolicy_can_create_instance(store, user, inventory_id) ==
    inventory_id \in IdsOf(InventoryAccessPolicy_get_qs_for_user(store, user, "EDIT"))

InventoryAssetRelationAccessPolicy_can_delete_instance(store, user, relation) ==
    relation.inventory \in IdsOf(InventoryAccessPolicy_get_qs_for_user(store, user, "EDIT"))

\* The statements: 'create' and 'destroy' of an authenticated principal, each
\* under user_has_perm:change_inventory and its instance condition.
InventoryAssetRelationAccessPolicy_statements(store, user, http_action, relation) ==
    /\ user # NULL
    /\ HasPerm(user, "change_inventory")
    /\ CASE http_action = "create" ->
                InventoryAssetRelationAccessPolicy_can_create_instance(store, user, relation.inventory)
         [] http_action = "destroy" ->
                InventoryAssetRelationAccessPolicy_can_delete_instance(store, user, relation)
         [] OTHER -> FALSE

-----------------------------------------------------------------------------
(* DisposalPlanAccessPolicy *)

\* (Mutated: no "Can't delete non DRAFT DisposalPlan".)
DisposalPlanClauseDeletesAnyState(ua, action, e) ==
    /\ ~(ua.mode = "DISPOSAL_VALIDATOR" /\ action \notin {"READ", "PLAY_TRANSITION"})
    /\ AreaTerm(ua, e)
    /\ CountryTerm(ua, e)

DisposalPlanClause(ua, action, e) ==
    /\ ~(ua.mode = "DISPOSAL_VALIDATOR" /\ action \notin {"READ", "PLAY_TRANSITION"})
    /\ action = "DELETE" => e.state = "DRAFT"
    /\ AreaTerm(ua, e)
    /\ CountryTerm(ua, e)

\* (Mutated: no "Can't edit/delete a DONE DisposalPlan".)
DisposalPlanBaseKeepsDone(action) == DisposalPlans

\* "Can't edit/delete a DONE DisposalPlan."
DisposalPlanBase(action) ==
    IF action \in {"EDIT", "DELETE"}
    THEN {e \in DisposalPlans : e.state # "DONE"}
    ELSE DisposalPlans

\* (Mutated: change_disposalplan_all plays every transition.)
DisposalPlanAllTransitionsEverything(queryset) == queryset

\* "Users with permission change_disposalplan_all can do all transition
\* except validating and submitting."
DisposalPlanAllTransitions(queryset) ==
    {e \in queryset : e.state # "UNDER_FINANCE_VALIDATION"}

DisposalPlanAccessPolicy_get_qs_for_user(store, user, action) ==
    IF \/ user = NULL
       \/ (action = "READ" /\ ~(HasPerm(user, "view_disposalplan") \/ HasPerm(user, "view_disposalplan_all")))
       \/ (action = "EDIT" /\ ~(HasPerm(user, "change_disposalplan") \/ HasPerm(user, "change_disposalplan_all")))
       \/ (action = "DELETE" /\ ~(HasPerm(user, "delete_disposalplan") \/ HasPerm(user, "delete_disposalplan_all")))
    THEN {}
    ELSE IF action = "READ" /\ HasPerm(user, "view_disposalplan_all") THEN DisposalPlanBase(action)
    ELSE IF action = "EDIT" /\ HasPerm(user, "change_disposalplan_all") THEN DisposalPlanBase(action)
    ELSE IF action = "PLAY_TRANSITION" /\ HasPerm(user, "change_disposalplan_all")
         THEN DisposalPlanAllTransitions(DisposalPlanBase(action))
    ELSE IF action = "DELETE" /\ HasPerm(user, "delete_disposalplan_all") THEN DisposalPlanBase(action)
    ELSE LET uas == UserAccesses(store, user) IN QueryOrNone(uas, DisposalPlanBase(action),
            {e \in DisposalPlanBase(action) :
                \E ua \in uas : DisposalPlanClause(ua, action, e)}, {})
\* DisposalPlan.Transition names; VALIDATE stands for the names the hook does
\* not list.
DisposalPlanTransitionNames == {"SUBMIT_TO_FINANCE", "TO_CORRECT", "VALIDATE"}

\* (Mutated: no rule for the source state UNDER_FINANCE_VALIDATION.)
DisposalPlanTransitionForAccessNoFinanceRule(user_access, transition) ==
    IF transition.name \in {"SUBMIT_TO_FINANCE", "TO_CORRECT"} /\ user_access.mode = "OFFICER"
    THEN "False"
    ELSE IF user_access.mode \in {"OFFICER", "MANAGER", "CONTROLLER"} THEN "True"
    ELSE "continue"

\* One turn of the loop over the accesses: what it returns, or "continue".
DisposalPlanTransitionForAccess(user_access, transition) ==
    IF transition.source_state = "UNDER_FINANCE_VALIDATION"
    THEN IF user_access.mode = "DISPOSAL_VALIDATOR" THEN "True" ELSE "False"
    ELSE IF transition.name \in {"SUBMIT_TO_FINANCE", "TO_CORRECT"} /\ user_access.mode = "OFFICER"
    THEN "False"
    ELSE IF user_access.mode \in {"OFFICER", "MANAGER", "CONTROLLER"} THEN "True"
    ELSE "continue"

\* The loop returns at the first access that does not continue.  The queryset
\* of accesses carries no order_by, so any of them can be that first one: the
\* operator gives the set of values the call can return.
DisposalPlanAccessPolicy_scope_workflow_transition_check(store, disposal_plan, transition, user) ==
    IF user = NULL THEN {FALSE}
    ELSE IF HasPerm(user, "change_disposal_plan_all_transitions") THEN {TRUE}
    ELSE IF /\ HasPerm(user, "change_asset_all")
            /\ transition.source_state # "UNDER_FINANCE_VALIDATION"
         THEN {TRUE}
    ELSE LET returns == {DisposalPlanTransitionForAccess(ua, transition) :
                ua \in get_accesses_for_country_and_area(
                    store, user, disposal_plan.country_mission, disposal_plan.acted_area)}
                        \ {"continue"}
         IN  IF returns = {} THEN {FALSE} ELSE {r = "True" : r \in returns}


\* "User can create disposal plan if: he has add_disposalplan permission; he
\* can modify related assets."  assets is the list of asset ids of the request.
user_can_create_disposal_plan(store, user, assets) ==
    LET can_modify == Range(IdSeq(AssetAccessPolicy_get_qs_for_user(store, user, "EDIT")))
    IN  IF user = NULL THEN FALSE
        ELSE IF ~HasPerm(user, "add_disposalplan") THEN FALSE
        ELSE IF \E i \in 1..Len(assets) : assets[i] \notin can_modify THEN FALSE
        ELSE Len(assets) > 0

\* The serializer fields of a DisposalPlan: field name -> read_only flag.
DisposalPlanFields ==
    {"state", "disposed_date", "reason", "removal_plan", "recycling_method",
     "reimbursed_amount", "reimbursed_currency", "recipient_name"}

\* The list read_only_fields that set_read_only_fields builds.
read_only_fields(disposal_plan) ==
    (IF disposal_plan.state \notin {"DRAFT", "UNDER_MANAGER_VALIDATION"}
     THEN <<"reason", "removal_plan", "recycling_method",
            "reimbursed_amount", "reimbursed_currency", "recipient_name">>
     ELSE << >>)
    \o (IF disposal_plan.state = "DONE" THEN <<"disposed_date">> ELSE << >>)

\* (Mutated: a DONE plan keeps disposed_date writable.)
set_read_only_fieldsForgetsDisposedDate(disposal_plan, fields, user) ==
    [f \in DOMAIN fields |->
        IF f \in Range(read_only_fields(disposal_plan)) \ {"disposed_date"}
        THEN TRUE ELSE fields[f]]

\* fields[field_name].read_only = True for each listed name; the other flags
\* of the Field objects handed in are left as they are.
set_read_only_fields(disposal_plan, fields, user) ==
    [f \in DOMAIN fields |->
        IF f \in Range(read_only_fields(disposal_plan)) THEN TRUE ELSE fields[f]]

\* instance: a plan, a List of plans, or None.
DisposalPlanAccessPolicy_scope_fields(user, fields, instance) ==
    IF instance.kind \in {"None", "List"} THEN fields
    ELSE set_read_only_fields(instance, fields, user)

-----------------------------------------------------------------------------
(* AssetMaintenanceAccessPolicy *)

AssetMaintenanceClause(ua, action, e) ==
    /\ AreaTerm(ua, e)
    /\ CountryTerm(ua, e)

\* "Non-admins can't edit/delete a DONE AssetMaintenance."
AssetMaintenanceBase(action) ==
    IF action \in {"EDIT", "DELETE"}
    THEN {e \in AssetMaintenances : e.state # "DONE"}
    ELSE AssetMaintenances

AssetMaintenanceAccessPolicy_get_qs_for_user(store, user, action) ==
    IF \/ user = NULL
       \/ (action = "READ" /\ ~(HasPerm(user, "view_assetmaintenance") \/ HasPerm(user, "view_assetmaintenance_all")))
       \/ (action = "EDIT" /\ ~(HasPerm(user, "change_assetmaintenance") \/ HasPerm(user, "change_assetmaintenance_all")))
       \/ (action = "DELETE" /\ ~(HasPerm(user, "delete_assetmaintenance") \/ HasPerm(user, "delete_assetmaintenance_all")))
    THEN {}
    ELSE IF action = "READ" /\ HasPerm(user, "view_assetmaintenance_all") THEN AssetMaintenances
    ELSE IF action = "EDIT" /\ HasPerm(user, "change_assetmaintenance_all") THEN AssetMaintenances
    ELSE IF action = "DELETE" /\ HasPerm(user, "delete_assetmaintenance_all") THEN AssetMaintenances
    ELSE LET uas == UserAccesses(store, user) IN QueryOrNone(uas, AssetMaintenanceBase(action),
            {e \in AssetMaintenanceBase(action) :
                \E ua \in uas : AssetMaintenanceClause(ua, action, e)}, {})

-----------------------------------------------------------------------------
(* SpecScope: the policies applied to one requesting user *)

GrantCombos == {[country |-> c, acted_area |-> a, mode |-> m] :
                    c \in Range(CountrySeq), a \in Range(AreaSeq), m \in Modes}
NoGrant == [country |-> NULL, acted_area |-> NULL, mode |-> "NONE"]

GrantId(k) == (Idx(CountrySeq, k.country) - 1) * Len(AreaSeq) * Len(ModeSeq)
              + (Idx(AreaSeq, k.acted_area) - 1) * Len(ModeSeq)
              + Idx(ModeSeq, k.mode)

\* The grants of another user: one row of every country, area and mode.
BobGrants == {AccessRow(GrantId(k), "bob", k.country, k.acted_area, k.mode) : k \in GrantCombos}

\* The sets of at most MaxGrants grants the requesting user may hold: any
\* mode; no country or country "X" with no area or area "A", and country
\* "Y" with no area.
OwnGrantCombos == {k \in GrantCombos :
    \/ k.acted_area = NULL
    \/ k.acted_area = "A" /\ k.country \in {NULL, "X"}}
OwnGrantSets == {{f[i] : i \in 1..MaxGrants} \ {NoGrant} :
                    f \in [1..MaxGrants -> OwnGrantCombos \cup {NoGrant}]}

OwnRows(own) == {AccessRow(Cardinality(GrantCombos) + GrantId(k), "alice",
                           k.country, k.acted_area, k.mode) : k \in own}

\* The serializer's field flags before scope_fields: purchase_number is
\* declared writable, code may be declared read-only.
FieldInputs == {[f \in AssetFields |-> f \in ro] : ro \in {{}, {"code"}}}
AssetArgs == {"instance", "list", "none"}

\* Targets of user_can_create_access: codes and mode of the grant to create.
CreateTargets == {[country |-> c, acted_area |-> a, mode |-> m] :
                    c \in Range(CountrySeq) \cup {UnknownCountryCode},
                    a \in Range(AreaSeq) \cup {UnknownAreaCode}, m \in Modes}

NoResp == [op |-> "none"]

InitScope ==
    /\ reqUser \in {"alice", NULL}
    /\ \E p \in Profiles, own \in OwnGrantSets :
        /\ reqUser = NULL => (p = {} /\ own = {})
        /\ perms = [u \in Users |-> IF u = "alice" THEN p ELSE {}]
        /\ accesses = BobGrants \cup OwnRows(own)
    /\ nextId = 2 * Cardinality(GrantCombos) + 1
    /\ resp = NoResp
    /\ procAccesses = {}
    /\ procNextId = 1
    /\ jobs = << >>
    /\ tasks = << >>

\* The policy calls are pure reads: each behaviour of SpecScope applies one
\* call to the drawn user and records what it returned.
ScopeFrame == UNCHANGED <<accesses, nextId, perms, reqUser, procAccesses, procNextId, jobs, tasks>>

\* AssetUserAccessViewSet.get_queryset and user_can_delete_access
CallAssetUserAccessPolicy ==
    /\ resp = NoResp
    /\ resp' = [op |-> "AssetUserAccessAccessPolicy",
                scope |-> [a \in AccessPolicyAction |->
                    IdsOf(AssetUserAccessAccessPolicy_get_qs_for_user(accesses, reqUser, a))]]
    /\ ScopeFrame

\* AssetViewSet.get_queryset, can_update_instance, can_delete_instance
CallAssetPolicy ==
    /\ resp = NoResp
    /\ resp' = [op |-> "AssetAccessPolicy",
                rows |-> [a \in AccessPolicyAction |->
                    IdSeq(AssetAccessPolicy_get_qs_for_user(accesses, reqUser, a))],
                scope |-> [a \in AccessPolicyAction |->
                    Range(IdSeq(AssetAccessPolicy_get_qs_for_user(accesses, reqUser, a)))]]
    /\ ScopeFrame

\* The transition hook for every asset and transition name: the assets for
\* which it can return True, and those for which it can return False.
CallScopeWorkflowTransitionCheck ==
    LET returns == [t \in TransitionNames |-> [id \in DOMAIN Assets |->
            scope_workflow_transition_check(accesses, Assets[id], t, reqUser)]]
    IN  /\ resp = NoResp
        /\ resp' = [op |-> "scope_workflow_transition_check",
                    allowed |-> [t \in TransitionNames |->
                        {id \in DOMAIN Assets : TRUE \in returns[t][id]}],
                    denied |-> [t \in TransitionNames |->
                        {id \in DOMAIN Assets : FALSE \in returns[t][id]}]]
        /\ ScopeFrame

CallProjectContractPolicy ==
    /\ resp = NoResp
    /\ resp' = [op |-> "AssetAllocationProjectContractAccessPolicy",
                scope |-> [a \in AccessPolicyAction |->
                    IdsOf(AssetAllocationProjectContractAccessPolicy_get_qs_for_user(accesses, reqUser, a))]]
    /\ ScopeFrame

CallPremisesPolicy ==
    /\ resp = NoResp
    /\ resp' = [op |-> "AssetAllocationPremisesAccessPolicy",
                scope |-> [a \in AccessPolicyAction |->
                    IdsOf(AssetAllocationPremisesAccessPolicy_get_qs_for_user(accesses, reqUser, a))]]
    /\ ScopeFrame

CallUsagePolicy ==
    /\ resp = NoResp
    /\ resp' = [op |-> "AssetAllocationUsageAccessPolicy",
                scope |-> [a \in AccessPolicyAction |->
                    IdsOf(AssetAllocationUsageAccessPolicy_get_qs_for_user(accesses, reqUser, a))]]
    /\ ScopeFrame

CallInventoryPolicy ==
    /\ resp = NoResp
    /\ resp' = [op |-> "InventoryAccessPolicy",
                scope |-> [a \in AccessPolicyAction |->
                    IdsOf(InventoryAccessPolicy_get_qs_for_user(accesses, reqUser, a))]]
    /\ ScopeFrame

\* A request of every view action on every inventory (for 'create', on its
\* premises): the inventories for which the policy lets the request through
\* to the handler; the others are answered 401 or 403 before it.
CallInventoryStatements ==
    /\ resp = NoResp
    /\ resp' = [op |-> "InventoryAccessPolicy.statements",
                allowed |-> [h \in InventoryHttpActions |->
                    {e.id : e \in {i \in Inventories :
                        InventoryAccessPolicy_statements(accesses, reqUser, h, i)}}]]
    /\ ScopeFrame

\* The Inventory transition hook for every inventory and transition name.
CallInventoryTransitionCheck ==
    /\ resp = NoResp
    /\ resp' = [op |-> "InventoryAccessPolicy.scope_workflow_transition_check",
                allowed |-> [t \in InventoryTransitionNames |->
                    {e.id : e \in {i \in Inventories :
                        InventoryAccessPolicy_scope_workflow_transition_check(
                            accesses, i, t, reqUser)}}]]
    /\ ScopeFrame

\* A create and a destroy request for the relation of every inventory.
CallInventoryAssetRelationPolicy ==
    /\ resp = NoResp
    /\ resp' = [op |-> "InventoryAssetRelationAccessPolicy",
                allowed |-> [h \in {"create", "destroy"} |->
                    {r.inventory : r \in {q \in InventoryAssetRelations :
                        InventoryAssetRelationAccessPolicy_statements(accesses, reqUser, h, q)}}]]
    /\ ScopeFrame

CallDisposalPlanPolicy ==
    /\ resp = NoResp
    /\ resp' = [op |-> "DisposalPlanAccessPolicy",
                scope |-> [a \in AccessPolicyAction |->
                    IdsOf(DisposalPlanAccessPolicy_get_qs_for_user(accesses, reqUser, a))]]
    /\ ScopeFrame

\* The DisposalPlan transition hook for every plan and every transition name,
\* the transition leaving the state the plan is in: the plans for which it
\* can return True, and those for which it can return False.
CallDisposalPlanTransitionCheck ==
    LET returns == [t \in DisposalPlanTransitionNames |-> [p \in DisposalPlans |->
            DisposalPlanAccessPolicy_scope_workflow_transition_check(
                accesses, p, [name |-> t, source_state |-> p.state], reqUser)]]
    IN  /\ resp = NoResp
        /\ resp' = [op |-> "DisposalPlanAccessPolicy.scope_workflow_transition_check",
                    allowed |-> [t \in DisposalPlanTransitionNames |->
                        {e.id : e \in {p \in DisposalPlans : TRUE \in returns[t][p]}}],
                    denied |-> [t \in DisposalPlanTransitionNames |->
                        {e.id : e \in {p \in DisposalPlans : FALSE \in returns[t][p]}}]]
        /\ ScopeFrame

CallAssetMaintenancePolicy ==
    /\ resp = NoResp
    /\ resp' = [op |-> "AssetMaintenanceAccessPolicy",
                scope |-> [a \in AccessPolicyAction |->
                    IdsOf(AssetMaintenanceAccessPolicy_get_qs_for_user(accesses, reqUser, a))]]
    /\ ScopeFrame

\* AssetUserAccessAccessPolicy.can_create_instance, for every target
CallUserCanCreateAccess ==
    /\ resp = NoResp
    /\ resp' = [op |-> "user_can_create_access",
                can |-> {t \in CreateTargets :
                    user_can_create_access(accesses, reqUser, t.country, t.acted_area, t.mode)}]
    /\ ScopeFrame

\* AssetUserAccessAccessPolicy.can_delete_instance, for every grant
CallUserCanDeleteAccess ==
    /\ resp = NoResp
    /\ resp' = [op |-> "user_can_delete_access",
                can |-> {g.id : g \in {h \in accesses : user_can_delete_access(accesses, reqUser, h.id)}}]
    /\ ScopeFrame

\* AssetAccessPolicy.scope_fields
\* The 'assets' lists of the create requests: none, one asset (0 is the id of
\* no asset), two assets.
AssetLists ==
    {<< >>} \cup {<<i>> : i \in {0} \cup DOMAIN Assets}
            \cup {<<1, i>> : i \in {0} \cup DOMAIN Assets}

\* A create request of a DisposalPlan for every list of assets.
CallUserCanCreateDisposalPlan ==
    /\ resp = NoResp
    /\ resp' = [op |-> "user_can_create_disposal_plan",
                can |-> [l \in AssetLists |->
                    user_can_create_disposal_plan(accesses, reqUser, l)]]
    /\ ScopeFrame

CallSetReadonlyFields ==
    \E asset \in AssetArgs, fields \in FieldInputs :
        /\ resp = NoResp
        /\ resp' = [op |-> "set_readonly_fields", asset |-> asset, input |-> fields,
                    fields |-> set_readonly_fields(asset, fields, reqUser)]
        /\ ScopeFrame

NextScope ==
    \/ CallAssetUserAccessPolicy
    \/ CallAssetPolicy
    \/ CallScopeWorkflowTransitionCheck
    \/ CallProjectContractPolicy
    \/ CallPremisesPolicy
    \/ CallUsagePolicy
    \/ CallInventoryPolicy
    \/ CallInventoryTransitionCheck
    \/ CallInventoryStatements
    \/ CallInventoryAssetRelationPolicy
    \/ CallDisposalPlanPolicy
    \/ CallDisposalPlanTransitionCheck
    \/ CallAssetMaintenancePolicy
    \/ CallUserCanCreateAccess
    \/ CallUserCanDeleteAccess
    \/ CallUserCanCreateDisposalPlan
    \/ CallSetReadonlyFields

SpecScope == InitScope /\ [][NextScope]_vars

-----------------------------------------------------------------------------
(* Spec: the AssetUserAccess endpoints *)

\* Who holds what in Spec: admin holds every permission, alice the plain
\* ones, bob none.
SpecPerms == [u \in Users |->
    IF u = "admin" THEN BasePerms \cup AllPerms
    ELSE IF u = "alice" THEN BasePerms
    ELSE {}]

\* The grants alice holds before the first request.
SeedGrants == {
    {AccessRow(1, "alice", "X", "A", "OFFICER")},
    {AccessRow(1, "alice", NULL, NULL, "MANAGER")},
    {AccessRow(1, "alice", NULL, NULL, "CONTROLLER")}}

\* Payloads of create_many.  A missing key is NULL; "nobody" names no User.
ReqUsernames == {"alice", "bob", "nobody", NULL}
ReqModes == {"OFFICER", "CONTROLLER", NULL}
ReqCountryCodes == {"X"}
ReqActedAreas == {<< >>, <<"A">>, <<"A", "B">>}

\* Payloads of delete_many: access_ids.
ReqAccessIds == {<< >>} \cup {<<i>> : i \in 1..MaxId}
                \cup {<<i, j>> : i \in 1..MaxId, j \in 1..MaxId}

\* User.objects.get(username=username) finds a row.
UserExists(username) == username \in Users

\* The statements of AssetUserAccessAccessPolicy: authenticated principal
\* holding the permission of the action.
StatementAllows(user, action) ==
    /\ user # NULL
    /\ \/ action = "list" /\ HasPerm(user, "view_assetuseraccess")
       \/ action = "create_many" /\ HasPerm(user, "add_assetuseraccess")
       \/ action = "delete_many" /\ HasPerm(user, "delete_assetuseraccess")

\* acted_area_codes = [area.get('code') for area in acted_areas] or [None]
ActedAreaCodes(acted_areas) == IF acted_areas = << >> THEN <<NULL>> ELSE acted_areas

\* The loop of create_many over acted_area_codes from a store and a next id:
\* PermissionDenied at the first code the actor may not create, the rows
\* written before it still in the result.
RECURSIVE CreateLoop(_, _, _, _, _, _, _, _)
CreateLoop(store, nid, written, actor, user, mode, country_code_iso, codes) ==
    IF codes = << >>
    THEN [status |-> "HTTP_201_CREATED", store |-> store, nextId |-> nid, written |-> written]
    ELSE IF ~user_can_create_access(store, actor, country_code_iso, Head(codes), mode)
    THEN [status |-> "PermissionDenied", store |-> store, nextId |-> nid, written |-> written]
    ELSE CreateLoop(
            store \cup {AccessRow(nid, user, CountryByCode(country_code_iso),
                                  AreaByCode(Head(codes)), mode)},
            nid + 1, written + 1, actor, user, mode, country_code_iso, Tail(codes))

\* The body of create_many inside the transaction.
CreateManyBody(store, nid, actor, username, mode, country_code_iso, acted_areas) ==
    IF username = NULL \/ mode = NULL
    THEN [status |-> "ValidationError", store |-> store, nextId |-> nid, written |-> 0]
    ELSE IF ~UserExists(username)
    THEN [status |-> "DoesNotExist", store |-> store, nextId |-> nid, written |-> 0]
    ELSE CreateLoop(store, nid, 0, actor, username, mode, country_code_iso,
                    ActedAreaCodes(acted_areas))

\* with transaction.atomic(): the rows written by a body that raised are
\* rolled back.  (Mutated: they are kept.)
TransactionAtomicNoRollback(before, result) == result.store

TransactionAtomic(before, result) ==
    IF result.status \in {"HTTP_201_CREATED", "HTTP_200_OK"} THEN result.store ELSE before

\* The loop of delete_many over access_ids: each id is checked against the
\* store as the deletions so far left it.
RECURSIVE DeleteLoop(_, _, _, _)
DeleteLoop(store, num_deleted, actor, access_ids) ==
    IF access_ids = << >>
    THEN [status |-> "HTTP_200_OK", store |-> store, num_deleted |-> num_deleted]
    ELSE IF user_can_delete_access(store, actor, Head(access_ids))
    THEN DeleteLoop({g \in store : g.id # Head(access_ids)}, num_deleted + 1,
                    actor, Tail(access_ids))
    ELSE DeleteLoop(store, num_deleted, actor, Tail(access_ids))

Init ==
    /\ accesses \in SeedGrants
    /\ nextId = Cardinality(accesses) + 1
    /\ perms = SpecPerms
    /\ reqUser = NULL
    /\ resp = NoResp
    /\ procAccesses = {}
    /\ procNextId = 1
    /\ jobs = << >>
    /\ tasks = << >>

\* POST create-many by actor.  Ids come from a sequence, which a rollback
\* does not rewind.
CreateMany(actor, username, mode, country_code_iso, acted_areas) ==
    /\ nextId + Len(ActedAreaCodes(acted_areas)) - 1 <= MaxId
    /\ reqUser' = actor
    /\ IF ~StatementAllows(actor, "create_many")
       THEN /\ resp' = [op |-> "create_many", username |-> username, mode |-> mode,
                        country |-> country_code_iso, acted_areas |-> acted_areas,
                        status |-> "NotAllowed", written |-> 0]
            /\ UNCHANGED <<accesses, nextId>>
       ELSE LET result == CreateManyBody(accesses, nextId, actor, username, mode,
                                         country_code_iso, acted_areas)
            IN /\ accesses' = TransactionAtomic(accesses, result)
               /\ nextId' = result.nextId
               /\ resp' = [op |-> "create_many", username |-> username, mode |-> mode,
                           country |-> country_code_iso, acted_areas |-> acted_areas,
                           status |-> result.status, written |-> result.written]
    /\ UNCHANGED <<perms, procAccesses, procNextId, jobs, tasks>>

\* POST delete-many by actor.
DeleteMany(actor, access_ids) ==
    /\ reqUser' = actor
    /\ IF ~StatementAllows(actor, "delete_many")
       THEN /\ resp' = [op |-> "delete_many", status |-> "NotAllowed", num_deleted |-> 0]
            /\ UNCHANGED accesses
       ELSE LET result == DeleteLoop(accesses, 0, actor, access_ids)
            IN /\ accesses' = TransactionAtomic(accesses, result)
               /\ resp' = [op |-> "delete_many", access_ids |-> access_ids,
                           status |-> result.status, num_deleted |-> result.num_deleted]
    /\ UNCHANGED <<nextId, perms, procAccesses, procNextId, jobs, tasks>>

Next ==
    \/ \E actor \in Users, username \in ReqUsernames, mode \in ReqModes,
          country_code_iso \in ReqCountryCodes, acted_areas \in ReqActedAreas :
            CreateMany(actor, username, mode, country_code_iso, acted_areas)
    \/ \E actor \in Users, access_ids \in ReqAccessIds :
            DeleteMany(actor, access_ids)

Spec == Init /\ [][Next]_vars

-----------------------------------------------------------------------------
(* SpecGrants: create_many and delete_many requested by users who do not   *)
(* hold add_assetuseraccess_all, with codes that name no row               *)

\* alice and bob hold the plain permissions; nobody who acts holds an
\* "_all" one.
GrantPerms == [u \in Users |-> IF u = "admin" THEN BasePerms \cup AllPerms ELSE BasePerms]
GrantActors == {"alice", "bob"}

\* The grants held before the first request.
GrantSeeds == {
    {AccessRow(1, "alice", "X", "A", "OFFICER")},
    {AccessRow(1, "alice", "X", NULL, "MANAGER")},
    {AccessRow(1, "alice", NULL, "A", "MANAGER")},
    {AccessRow(1, "bob", NULL, NULL, "OFFICER")}}

\* Payloads: a code of a row, a code of no row, a missing key.
GrantModes == {"OFFICER", "MANAGER", "CONTROLLER"}
GrantCountryCodes == {"X", UnknownCountryCode, NULL}
GrantActedAreas == {<< >>, <<"A">>, <<"A", UnknownAreaCode>>}

InitGrants ==
    /\ accesses \in GrantSeeds
    /\ nextId = Cardinality(accesses) + 1
    /\ perms = GrantPerms
    /\ reqUser = NULL
    /\ resp = NoResp
    /\ procAccesses = {}
    /\ procNextId = 1
    /\ jobs = << >>
    /\ tasks = << >>

NextGrants ==
    \/ \E actor \in GrantActors, username \in GrantActors, mode \in GrantModes,
          country_code_iso \in GrantCountryCodes, acted_areas \in GrantActedAreas :
            CreateMany(actor, username, mode, country_code_iso, acted_areas)
    \/ \E actor \in GrantActors, access_id \in 1..MaxId :
            DeleteMany(actor, <<access_id>>)

SpecGrants == InitGrants /\ [][NextGrants]_vars

-----------------------------------------------------------------------------
(* SpecProcurement: ProcurementAccessPolicyViewSet *)

ProcAccessRow(id, user, country, mode) ==
    [id |-> id, user |-> user, country |-> country, mode |-> mode]

\* Payloads of the procurement create_many.
ReqProcUsernames == {"alice", "bob", NULL}
ReqProcModes == {"OFFICER", "MANAGER", NULL}
ReqCountryCodeLists == {<< >>, <<"X">>, <<"X", "Y">>}

\* Payloads of the procurement delete_many: access_ids.
ReqProcAccessIds == {<< >>} \cup {<<i>> : i \in 1..MaxProcId}
                    \cup {p \in (1..MaxProcId) \X (1..MaxProcId) : p[1] # p[2]}

\* ProcurementUserAccessAccessPolicy is defined outside these sources: what
\* its statements and its user_can_create_access answer is drawn, one answer
\* per call of a request that makes n calls.
PolicyAnswers(n) == [1..n -> BOOLEAN]

\* country_codes or [None]
CountryCodes(country_codes) == IF country_codes = << >> THEN <<NULL>> ELSE country_codes

\* ProcurementUserAccess.objects.get_or_create(user=, country=, defaults={'mode': mode})
\* (Mutated: a plain create.)
get_or_createAlwaysCreate(store, nid, user, country, mode) ==
    [status |-> "ok", store |-> store \cup {ProcAccessRow(nid, user, country, mode)},
     nextId |-> nid + 1, id |-> nid, created |-> TRUE]

get_or_create(store, nid, user, country, mode) ==
    LET found == {g \in store : g.user = user /\ g.country = country}
    IN IF found = {}
       THEN [status |-> "ok", store |-> store \cup {ProcAccessRow(nid, user, country, mode)},
             nextId |-> nid + 1, id |-> nid, created |-> TRUE]
       ELSE IF Cardinality(found) = 1
       THEN [status |-> "ok", store |-> store, nextId |-> nid,
             id |-> (CHOOSE g \in found : TRUE).id, created |-> FALSE]
       ELSE [status |-> "MultipleObjectsReturned", store |-> store, nextId |-> nid,
             id |-> 0, created |-> FALSE]

\* access.mode = mode; access.save()
SaveMode(store, id, mode) ==
    {IF g.id = id THEN [g EXCEPT !.mode = mode] ELSE g : g \in store}

\* The loop of the procurement create_many over the country codes; answers[k]
\* is what user_can_create_access returns for the k-th code.
RECURSIVE ProcCreateLoop(_, _, _, _, _, _, _, _)
ProcCreateLoop(store, nid, updated, user, mode, codes, answers, k) ==
    IF k > Len(codes)
    THEN [status |-> "HTTP_201_CREATED", store |-> store, nextId |-> nid, updated |-> updated]
    ELSE IF ~answers[k]
    THEN [status |-> "PermissionDenied", store |-> store, nextId |-> nid, updated |-> updated]
    ELSE LET got == get_or_create(store, nid, user, CountryByCode(codes[k]), mode)
         IN IF got.status # "ok"
            THEN [status |-> got.status, store |-> store, nextId |-> nid, updated |-> updated]
            ELSE ProcCreateLoop(SaveMode(got.store, got.id, mode), got.nextId,
                    updated \cup {g.id : g \in {h \in got.store : h.id = got.id /\ h.mode # mode}},
                    user, mode, codes, answers, k + 1)

\* The body of the procurement create_many inside the transaction.
ProcCreateManyBody(store, nid, username, mode, country_codes, answers) ==
    IF username = NULL \/ mode = NULL
    THEN [status |-> "ValidationError", store |-> store, nextId |-> nid, updated |-> {}]
    ELSE IF ~UserExists(username)
    THEN [status |-> "DoesNotExist", store |-> store, nextId |-> nid, updated |-> {}]
    ELSE ProcCreateLoop(store, nid, {}, username, mode, CountryCodes(country_codes), answers, 1)

\* The loop of the procurement delete_many: an id that names a row is deleted
\* when user_can_create_access answers yes for the row's country and mode.
RECURSIVE ProcDeleteLoop(_, _, _, _, _)
ProcDeleteLoop(store, num_deleted, access_ids, answers, k) ==
    IF k > Len(access_ids)
    THEN [status |-> "HTTP_200_OK", store |-> store, num_deleted |-> num_deleted]
    ELSE IF (\E g \in store : g.id = access_ids[k]) /\ answers[k]
    THEN ProcDeleteLoop({g \in store : g.id # access_ids[k]}, num_deleted + 1,
                        access_ids, answers, k + 1)
    ELSE ProcDeleteLoop(store, num_deleted, access_ids, answers, k + 1)

InitProcurement ==
    /\ procAccesses = {}
    /\ procNextId = 1
    /\ jobs = << >>
    /\ tasks = << >>
    /\ accesses = {}
    /\ nextId = 1
    /\ perms = SpecPerms
    /\ reqUser = NULL
    /\ resp = NoResp

\* POST create-many of the procurement grants; allowed is the answer of the
\* policy's statements for the requesting user.
ProcCreateMany(allowed, username, mode, country_codes, answers) ==
    /\ procNextId + Len(CountryCodes(country_codes)) - 1 <= MaxProcId
    /\ IF ~allowed
       THEN /\ resp' = [op |-> "procurement_create_many", username |-> username,
                        mode |-> mode, country_codes |-> country_codes,
                        status |-> "NotAllowed", updated |-> {}]
            /\ UNCHANGED <<procAccesses, procNextId>>
       ELSE LET result == ProcCreateManyBody(procAccesses, procNextId, username, mode,
                                             country_codes, answers)
            IN /\ procAccesses' = TransactionAtomic(procAccesses, result)
               /\ procNextId' = result.nextId
               /\ resp' = [op |-> "procurement_create_many", username |-> username,
                           mode |-> mode, country_codes |-> country_codes,
                           status |-> result.status, updated |-> result.updated]
    /\ UNCHANGED <<accesses, nextId, perms, reqUser, jobs, tasks>>

\* POST delete-many of the procurement grants.
ProcDeleteMany(allowed, access_ids, answers) ==
    /\ IF ~allowed
       THEN /\ resp' = [op |-> "procurement_delete_many", status |-> "NotAllowed",
                        num_deleted |-> 0]
            /\ UNCHANGED procAccesses
       ELSE LET result == ProcDeleteLoop(procAccesses, 0, access_ids, answers, 1)
            IN /\ procAccesses' = TransactionAtomic(procAccesses, result)
               /\ resp' = [op |-> "procurement_delete_many", status |-> result.status,
                           num_deleted |-> result.num_deleted]
    /\ UNCHANGED <<accesses, nextId, perms, reqUser, procNextId, jobs, tasks>>

NextProcurement ==
    \/ \E allowed \in BOOLEAN, username \in ReqProcUsernames,
          mode \in ReqProcModes, country_codes \in ReqCountryCodeLists :
            \E answers \in PolicyAnswers(Len(CountryCodes(country_codes))) :
                ProcCreateMany(allowed, username, mode, country_codes, answers)
    \/ \E allowed \in BOOLEAN, access_ids \in ReqProcAccessIds :
            \E answers \in PolicyAnswers(Len(access_ids)) :
                ProcDeleteMany(allowed, access_ids, answers)

SpecProcurement == InitProcurement /\ [][NextProcurement]_vars

-----------------------------------------------------------------------------
(* SpecFields: successive calls of DisposalPlanAccessPolicy.scope_fields.  The
   Field objects handed in are either those of a newly built serializer
   (every flag as declared) or the ones the previous call was handed and
   returned. *)

\* The flags as the serializer declares them: every field writable.
DeclaredFields == [f \in DisposalPlanFields |-> FALSE]

InstanceArgs ==
    {[kind |-> "DisposalPlan", state |-> s] : s \in Range(DisposalPlanStateSeq)}
        \cup {[kind |-> "List"], [kind |-> "None"]}

InitFields ==
    /\ reqUser \in Users \cup {NULL}
    /\ resp = [op |-> "serializer", before |-> [kind |-> "None"],
               instance |-> [kind |-> "None"], fresh |-> TRUE,
               input |-> DeclaredFields, fields |-> DeclaredFields]
    /\ accesses = {}
    /\ nextId = 1
    /\ perms = SpecPerms
    /\ procAccesses = {}
    /\ procNextId = 1
    /\ jobs = << >>
    /\ tasks = << >>

ScopeFields(instance, fresh, fields) ==
    /\ resp' = [op |-> "scope_fields", before |-> resp.instance,
                instance |-> instance, fresh |-> fresh, input |-> fields,
                fields |-> DisposalPlanAccessPolicy_scope_fields(reqUser, fields, instance)]
    /\ UNCHANGED <<accesses, nextId, perms, reqUser, procAccesses, procNextId, jobs, tasks>>

\* scope_fields on the fields of a newly built serializer.
ScopeFieldsNewSerializer ==
    \E instance \in InstanceArgs : ScopeFields(instance, TRUE, DeclaredFields)

\* scope_fields on the Field objects the previous call returned.
ScopeFieldsSameFields ==
    \E instance \in InstanceArgs :
        /\ resp.op = "scope_fields"
        /\ ScopeFields(instance, FALSE, resp.fields)

NextFields ==
    \/ ScopeFieldsNewSerializer
    \/ ScopeFieldsSameFields

SpecFields == InitFields /\ [][NextFields]_vars

-----------------------------------------------------------------------------
(* SpecExport: InventoryViewSet.export_pdf and the task
   export_assets_inventory *)

\* The inventory codes of the requests: inventories 5 (X, A) and 6 (Y, A), and
\* 0, the code of no inventory.
ExportCodes == {0, 5, 6}

\* LongRunningJob.objects.create(created_by, type, detail): a new job is
\* WAITING, without progress, message or attachment.
LongRunningJobCreate(id, created_by, type, detail) ==
    [id |-> id, created_by |-> created_by, type |-> type, detail |-> detail,
     status |-> "WAITING", progress |-> 0, message |-> "none", attachments |-> 0]

\* What the try block of export_assets_inventory can do: run to its end, or
\* raise (Inventory.DoesNotExist, the rendering, job.attach) before a file is
\* attached.
TaskOutcomes == {"done", "raise"}

\* (Mutated: an exception of the try block is not caught.)
export_assets_inventoryNoExcept(job, outcome) ==
    IF outcome = "done"
    THEN [job EXCEPT !.attachments = @ + 1, !.status = "DONE", !.progress = 100,
                     !.message = "attach_uuid"]
    ELSE job

\* The job as export_assets_inventory saves it.
export_assets_inventory(job, outcome) ==
    IF outcome = "done"
    THEN [job EXCEPT !.attachments = @ + 1, !.status = "DONE", !.progress = 100,
                     !.message = "attach_uuid"]
    ELSE [job EXCEPT !.status = "ERROR", !.progress = 100, !.message = "message"]

InitExport ==
    /\ accesses \in SeedGrants
    /\ nextId = Cardinality(accesses) + 1
    /\ perms = SpecPerms
    /\ reqUser = NULL
    /\ resp = NoResp
    /\ procAccesses = {}
    /\ procNextId = 1
    /\ jobs = << >>
    /\ tasks = << >>

\* POST export-pdf of inventory code by actor: the policy, get_object on the
\* scoped queryset, then the job and the task.
ExportPdf(actor, code) ==
    /\ Len(jobs) < MaxJobs
    /\ reqUser' = actor
    /\ IF actor = NULL
       THEN /\ resp' = [op |-> "export_pdf", status |-> "HTTP_401_UNAUTHORIZED", job |-> 0]
            /\ UNCHANGED <<jobs, tasks>>
       ELSE IF ~InventoryAccessPolicy_statements(accesses, actor, "export_pdf", [id |-> code])
       THEN /\ resp' = [op |-> "export_pdf", status |-> "HTTP_403_FORBIDDEN", job |-> 0]
            /\ UNCHANGED <<jobs, tasks>>
       ELSE IF code \notin IdsOf(InventoryAccessPolicy_get_qs_for_user(accesses, actor, "READ"))
       THEN /\ resp' = [op |-> "export_pdf", status |-> "HTTP_404_NOT_FOUND", job |-> 0]
            /\ UNCHANGED <<jobs, tasks>>
       ELSE LET job == LongRunningJobCreate(Len(jobs) + 1, actor, "EXPORT_ASSET_INVENTORY",
                            [locale |-> "en", inventory_code |-> code])
            IN  /\ jobs' = Append(jobs, job)
                /\ tasks' = Append(tasks, job.id)
                /\ resp' = [op |-> "export_pdf", status |-> "HTTP_200_OK", job |-> job.id]
    /\ UNCHANGED <<accesses, nextId, perms, procAccesses, procNextId>>

\* A worker takes one of the waiting tasks and runs export_assets_inventory.
RunExportTask(i, outcome) ==
    /\ i \in DOMAIN tasks
    /\ jobs' = [jobs EXCEPT ![tasks[i]] = export_assets_inventory(jobs[tasks[i]], outcome)]
    /\ tasks' = [k \in 1..(Len(tasks) - 1) |-> IF k < i THEN tasks[k] ELSE tasks[k + 1]]
    /\ resp' = [op |-> "export_assets_inventory", status |-> outcome, job |-> tasks[i]]
    /\ UNCHANGED <<accesses, nextId, perms, reqUser, procAccesses, procNextId>>

NextExport ==
    \/ \E actor \in Users \cup {NULL}, code \in ExportCodes : ExportPdf(actor, code)
    \/ \E i \in 1..MaxJobs, outcome \in TaskOutcomes : RunExportTask(i, outcome)

SpecExport == InitExport /\ [][NextExport]_vars

-----------------------------------------------------------------------------
(* Properties of the access policies, checked under SpecScope *)

OwnAccesses == UserAccesses(accesses, reqUser)
Holds(perm) == HasPerm(reqUser, perm)
Occurrences(s, x) == Cardinality({i \in DOMAIN s : s[i] = x})

EntityPolicies == {
    "AssetAccessPolicy",
    "AssetAllocationProjectContractAccessPolicy",
    "AssetAllocationPremisesAccessPolicy",
    "AssetAllocationUsageAccessPolicy",
    "InventoryAccessPolicy",
    "DisposalPlanAccessPolicy",
    "AssetMaintenanceAccessPolicy",
    "AssetUserAccessAccessPolicy"}

\* C1: a user holding view_asset but not view_asset_all whose only grant has
\* a country C and no area reads exactly the assets whose country_mission is
\* C or NULL, whatever their area, and each of them once.
C1_CountryGrantReadScope ==
    (/\ resp.op = "AssetAccessPolicy"
     /\ Holds("view_asset") /\ ~Holds("view_asset_all"))
    => \A ua \in OwnAccesses :
        (OwnAccesses = {ua} /\ ua.country # NULL /\ ua.acted_area = NULL)
        => \A id \in DOMAIN Assets :
            IF Assets[id].country_mission \in {ua.country, NULL}
            THEN Occurrences(resp.rows["READ"], id) = 1
            ELSE Occurrences(resp.rows["READ"], id) = 0

C1_Witness ==
    /\ resp.op = "AssetAccessPolicy"
    /\ Holds("view_asset") /\ ~Holds("view_asset_all")
    /\ \E ua \in OwnAccesses :
        /\ OwnAccesses = {ua} /\ ua.country = "X" /\ ua.acted_area = NULL
        /\ ua.mode = "OFFICER"
    /\ \E i, j, k \in resp.scope["READ"] :
        /\ Assets[i].country_mission = "X" /\ Assets[i].acted_area = "A"
        /\ Assets[j].country_mission = "X" /\ Assets[j].acted_area = "B"
        /\ Assets[k].country_mission = NULL
    /\ \E id \in DOMAIN Assets :
        Assets[id].country_mission = "Y" /\ id \notin resp.scope["READ"]

\* C2: under every entity policy a user with no grant and no "_all"
\* permission, and likewise the anonymous user, has an empty READ scope.
C2_NoGrantReadsNothing ==
    (/\ resp.op \in EntityPolicies
     /\ \/ reqUser = NULL
        \/ (OwnAccesses = {} /\ perms[reqUser] \cap AllPerms = {}))
    => resp.scope["READ"] = {}

C2_Witness ==
    /\ resp.op \in EntityPolicies
    /\ reqUser # NULL
    /\ OwnAccesses = {}
    /\ perms[reqUser] = BasePerms
    /\ accesses # {}
    /\ resp.scope["READ"] = {}

\* C4: for an actor without add_assetuseraccess_all and a mode M other than
\* CONTROLLER, user_can_create_access is true exactly when the actor holds a
\* grant of mode M, MANAGER or CONTROLLER whose country is NULL or the target
\* country and whose area is NULL or the target area.
C4_CreateRule ==
    (resp.op = "user_can_create_access" /\ ~Holds("add_assetuseraccess_all"))
    => \A t \in CreateTargets :
        t.mode # "CONTROLLER" =>
            (t \in resp.can <=>
                \E ua \in OwnAccesses :
                    /\ ua.mode \in {t.mode, "MANAGER", "CONTROLLER"}
                    /\ (ua.country = NULL \/ ua.country = t.country)
                    /\ (ua.acted_area = NULL \/ ua.acted_area = t.acted_area))

C4_Witness ==
    /\ resp.op = "user_can_create_access"
    /\ ~Holds("add_assetuseraccess_all")
    /\ \E ua \in OwnAccesses :
        OwnAccesses = {ua} /\ ua.mode = "MANAGER" /\ ua.country = "X" /\ ua.acted_area = "A"
    /\ [country |-> "X", acted_area |-> "A", mode |-> "OFFICER"] \in resp.can
    /\ [country |-> "X", acted_area |-> NULL, mode |-> "OFFICER"] \notin resp.can
    /\ [country |-> "Y", acted_area |-> "A", mode |-> "OFFICER"] \notin resp.can

\* C5: an actor without delete_assetuseraccess_all who may delete a grant g
\* may also create a grant of g's country, area and mode.
C5_DeleteImpliesCreate ==
    (resp.op = "user_can_delete_access" /\ ~Holds("delete_assetuseraccess_all"))
    => \A g \in accesses :
        g.id \in resp.can =>
            user_can_create_access(accesses, reqUser, g.country, g.acted_area, g.mode)

C5_Witness ==
    /\ resp.op = "user_can_delete_access"
    /\ ~Holds("delete_assetuseraccess_all")
    /\ \E g \in accesses : g.user # reqUser /\ g.id \in resp.can
    /\ \E g \in accesses : g.id \notin resp.can

\* C6 as stated: without view_assetuseraccess_all and
\* delete_assetuseraccess_all the DELETE scope of the grants equals their READ
\* scope; with delete_assetuseraccess_all the DELETE scope is every grant.
C6_ReadEqualsDelete ==
    resp.op = "AssetUserAccessAccessPolicy" =>
        /\ (~Holds("view_assetuseraccess_all") /\ ~Holds("delete_assetuseraccess_all"))
            => resp.scope["DELETE"] = resp.scope["READ"]
        /\ Holds("delete_assetuseraccess_all") => resp.scope["DELETE"] = IdsOf(accesses)

\* The grants an OFFICER grant shows without making them deletable.
OfficerSeesValidator(ua, g) ==
    /\ ua.mode = "OFFICER"
    /\ g.mode = "INVENTORY_VALIDATOR"
    /\ (ua.country = NULL \/ ua.country = g.country)
    /\ (ua.acted_area = NULL \/ ua.acted_area = g.acted_area)

\* C6 amended: without view_assetuseraccess_all and
\* delete_assetuseraccess_all every deletable grant is readable, and a
\* readable grant is deletable unless it is an INVENTORY_VALIDATOR grant the
\* actor reads through an OFFICER grant only; with
\* delete_assetuseraccess_all the DELETE scope is every grant.
C6_DeleteWithinRead ==
    resp.op = "AssetUserAccessAccessPolicy" =>
        /\ (~Holds("view_assetuseraccess_all") /\ ~Holds("delete_assetuseraccess_all"))
            => /\ resp.scope["DELETE"] \subseteq resp.scope["READ"]
               /\ \A g \in accesses :
                    (g.id \in resp.scope["READ"] /\ g.id \notin resp.scope["DELETE"])
                    <=> /\ g.mode = "INVENTORY_VALIDATOR"
                        /\ \E ua \in OwnAccesses : OfficerSeesValidator(ua, g)
                        /\ ~\E ua \in OwnAccesses :
                            /\ ua.mode \in {"INVENTORY_VALIDATOR", "MANAGER", "CONTROLLER"}
                            /\ (ua.country = NULL \/ ua.country = g.country)
                            /\ (ua.acted_area = NULL \/ ua.acted_area = g.acted_area)
        /\ Holds("delete_assetuseraccess_all") => resp.scope["DELETE"] = IdsOf(accesses)

C6_Witness ==
    /\ resp.op = "AssetUserAccessAccessPolicy"
    /\ reqUser # NULL
    /\ ~Holds("view_assetuseraccess_all") /\ ~Holds("delete_assetuseraccess_all")
    /\ \E ua \in OwnAccesses : OwnAccesses = {ua} /\ ua.mode = "OFFICER"
    /\ \E g \in accesses :
        g.mode = "INVENTORY_VALIDATOR" /\ g.id \in resp.scope["READ"] \ resp.scope["DELETE"]
    /\ \E g \in accesses : g.mode = "OFFICER" /\ g.id \in resp.scope["DELETE"]

\* C10: a user holding change_asset_purchase_number but neither change_asset
\* nor change_asset_all edits every asset whatever grants they hold, and
\* set_readonly_fields on one Asset makes every field but purchase_number
\* read-only and leaves purchase_number as it was declared.
C10_PurchaseNumberOnly ==
    (Holds(PurchaseNumberPerm) /\ ~Holds("change_asset") /\ ~Holds("change_asset_all"))
    => /\ resp.op = "AssetAccessPolicy" => resp.scope["EDIT"] = DOMAIN Assets
       /\ (resp.op = "set_readonly_fields" /\ resp.asset = "instance")
            => /\ \A f \in AssetFields \ {"purchase_number"} : resp.fields[f]
               /\ resp.fields["purchase_number"] = resp.input["purchase_number"]
               /\ ~resp.fields["purchase_number"]

C10_Witness ==
    /\ Holds(PurchaseNumberPerm) /\ ~Holds("change_asset") /\ ~Holds("change_asset_all")
    /\ resp.op = "set_readonly_fields" /\ resp.asset = "instance"
    /\ ~resp.input["name"] /\ resp.fields["name"]
    /\ ~resp.fields["purchase_number"]

-----------------------------------------------------------------------------
(* Properties of the grant endpoints, checked under Spec and SpecProcurement *)

AnyCountryCode == Range(CountrySeq) \cup {UnknownCountryCode}
AnyAreaCode == Range(AreaSeq) \cup {UnknownAreaCode}

\* C3: a CONTROLLER grant is only ever added by a create_many whose actor
\* holds add_assetuseraccess_all; for every other user
\* user_can_create_access is false for mode CONTROLLER whatever the country,
\* the area and the user's grants; and a create_many for mode CONTROLLER that
\* names an existing user, sent by an actor without add_assetuseraccess_all,
\* ends in PermissionDenied (refused by the statements already when the actor
\* lacks add_assetuseraccess).
C3_ControllerOnlyByAdmin ==
    /\ [][\A g \in accesses' \ accesses :
            g.mode = "CONTROLLER" =>
                (resp'.op = "create_many" /\ HasPerm(reqUser', "add_assetuseraccess_all"))]_vars
    /\ [](\A u \in Users :
            ~HasPerm(u, "add_assetuseraccess_all") =>
                \A c \in AnyCountryCode, a \in AnyAreaCode :
                    ~user_can_create_access(accesses, u, c, a, "CONTROLLER"))
    /\ []((/\ resp.op = "create_many"
           /\ resp.mode = "CONTROLLER"
           /\ UserExists(resp.username)
           /\ ~HasPerm(reqUser, "add_assetuseraccess_all"))
          => /\ resp.status = IF StatementAllows(reqUser, "create_many")
                              THEN "PermissionDenied" ELSE "NotAllowed"
             /\ resp.written = 0)

C3_Witness ==
    /\ resp.op = "create_many"
    /\ resp.mode = "CONTROLLER"
    /\ resp.username = "bob"
    /\ reqUser = "alice"
    /\ \E ua \in UserAccesses(accesses, "alice") :
        ua.mode = "CONTROLLER" /\ ua.country = NULL /\ ua.acted_area = NULL
    /\ resp.status = "PermissionDenied"
    /\ \E g \in accesses : g.user = "bob" /\ g.mode = "CONTROLLER"

\* C7: the procurement store never holds two rows of one user and country,
\* and after a create_many that succeeded every country of the request has
\* its one row for the user, carrying the mode of that request.
C7_UpsertKeepsOneRow ==
    /\ \A g, h \in procAccesses : (g.user = h.user /\ g.country = h.country) => g = h
    /\ (resp.op = "procurement_create_many" /\ resp.status = "HTTP_201_CREATED")
        => \A code \in Range(CountryCodes(resp.country_codes)) :
            \E g \in procAccesses :
                /\ g.user = resp.username
                /\ g.country = CountryByCode(code)
                /\ g.mode = resp.mode

C7_Witness ==
    /\ resp.op = "procurement_create_many"
    /\ resp.status = "HTTP_201_CREATED"
    /\ resp.username = "bob"
    /\ resp.mode = "MANAGER"
    /\ resp.country_codes = <<"X">>
    /\ resp.updated # {}
    /\ Cardinality({g \in procAccesses : g.user = "bob" /\ g.country = "X"}) = 1
    /\ \A g \in procAccesses :
        (g.user = "bob" /\ g.country = "X") => (g.mode = "MANAGER" /\ g.id \in resp.updated)

\* C8 as stated: the AssetUserAccess store holds at most one row of a user,
\* country and area.
C8_OneRowPerNaturalKey ==
    \A g, h \in accesses :
        (g.user = h.user /\ g.country = h.country /\ g.acted_area = h.acted_area)
        => g.id = h.id

\* C9: a create_many that passes the statements leaves the store as it was
\* and ends in PermissionDenied when user_can_create_access is false for one
\* of its acted areas, whatever it wrote for the areas before; and ends in
\* ValidationError, nothing written, when the username or the mode is missing.
C9_AllOrNothing ==
    [][(resp'.op = "create_many" /\ StatementAllows(reqUser', "create_many"))
        => /\ (resp'.username = NULL \/ resp'.mode = NULL)
                => (resp'.status = "ValidationError" /\ resp'.written = 0
                    /\ accesses' = accesses)
           /\ (/\ resp'.username # NULL /\ resp'.mode # NULL
               /\ UserExists(resp'.username)
               /\ \E code \in Range(ActedAreaCodes(resp'.acted_areas)) :
                    ~user_can_create_access(accesses, reqUser', resp'.country, code, resp'.mode))
                => (resp'.status = "PermissionDenied" /\ accesses' = accesses)
           /\ resp'.status # "HTTP_201_CREATED" => accesses' = accesses]_vars

C9_Witness ==
    /\ resp.op = "create_many"
    /\ resp.status = "PermissionDenied"
    /\ resp.acted_areas = <<"A", "B">>
    /\ resp.written = 1
    /\ reqUser = "alice"
    /\ \A g \in accesses : g.id # nextId - 1

-----------------------------------------------------------------------------
(* Properties of the entity scopes, checked under SpecScope *)

\* The geography of grant ua covers row e: each axis of the grant is NULL,
\* or equals the row's, or the row's is NULL.
Covers(ua, e) ==
    /\ (ua.country = NULL \/ e.country_mission \in {ua.country, NULL})
    /\ (ua.acted_area = NULL \/ e.acted_area \in {ua.acted_area, NULL})

\* C11: without delete_asset_all an asset is in the DELETE scope only if it
\* is IN_STOCK and a MANAGER or CONTROLLER grant of the user covers it, and
\* when the scope comes from the grants (no change_asset_all, no
\* change_asset_purchase_number) an asset is in the EDIT scope only if a
\* grant that is not a validator grant covers it.
C11_DeleteNeedsManagerInStock ==
    resp.op = "AssetAccessPolicy" =>
        /\ ~Holds("delete_asset_all") =>
            \A id \in resp.scope["DELETE"] :
                /\ Assets[id].state = "IN_STOCK"
                /\ \E ua \in OwnAccesses :
                    ua.mode \in {"MANAGER", "CONTROLLER"} /\ Covers(ua, Assets[id])
        /\ (~Holds("change_asset_all") /\ ~Holds(PurchaseNumberPerm)) =>
            \A id \in resp.scope["EDIT"] :
                \E ua \in OwnAccesses :
                    /\ ua.mode \notin {"INVENTORY_VALIDATOR", "DISPOSAL_VALIDATOR"}
                    /\ Covers(ua, Assets[id])

C11_Witness ==
    /\ resp.op = "AssetAccessPolicy"
    /\ Holds("delete_asset") /\ ~Holds("delete_asset_all")
    /\ ~Holds("change_asset_all") /\ ~Holds(PurchaseNumberPerm)
    /\ \E ua, ub \in OwnAccesses :
        /\ OwnAccesses = {ua, ub}
        /\ ua.mode = "MANAGER" /\ ua.country = "X" /\ ua.acted_area = "A"
        /\ ub.mode = "INVENTORY_VALIDATOR" /\ ub.country = "Y" /\ ub.acted_area = NULL
    /\ resp.scope["DELETE"] # {}
    /\ \E id \in DOMAIN Assets :
        /\ Assets[id].country_mission = "X" /\ Assets[id].acted_area = "A"
        /\ Assets[id].state = "IN_USE"
        /\ id \in resp.scope["EDIT"] \ resp.scope["DELETE"]
    /\ \E id \in resp.scope["READ"] :
        Assets[id].country_mission = "Y" /\ id \notin resp.scope["EDIT"]

\* C12: an Inventory in state VALIDATED is in no EDIT or DELETE scope,
\* whatever the permissions and grants, and no InventoryAssetRelation of a
\* VALIDATED inventory may be created or destroyed.
C12_ValidatedInventoryFrozen ==
    \A e \in Inventories :
        e.state = "VALIDATED" =>
            /\ resp.op = "InventoryAccessPolicy" =>
                e.id \notin resp.scope["EDIT"] \cup resp.scope["DELETE"]
            /\ resp.op = "InventoryAssetRelationAccessPolicy" =>
                e.id \notin resp.allowed["create"] \cup resp.allowed["destroy"]

C12_Witness ==
    /\ resp.op = "InventoryAssetRelationAccessPolicy"
    /\ Holds("change_inventory_all") /\ Holds("delete_inventory_all")
    /\ \E ua \in OwnAccesses :
        ua.mode = "MANAGER" /\ ua.country = NULL /\ ua.acted_area = NULL
    /\ resp.allowed["create"] = {e.id : e \in {i \in Inventories : i.state # "VALIDATED"}}
    /\ resp.allowed["destroy"] = resp.allowed["create"]
    /\ resp.allowed["create"] # {}

\* The grants of the requesting user that cover row e.
CoveringGrants(e) == {ua \in OwnAccesses : Covers(ua, e)}

\* C13: for a user holding the plain view, change and delete permissions on
\* project-contract allocations and none of the "_all" ones, an allocation
\* covered by grants that are all OFFICER grants is in the EDIT scope and in
\* the DELETE scope exactly when the user created it, and is in the READ scope
\* either way.
C13_OfficerEditsOwnContract ==
    (/\ resp.op = "AssetAllocationProjectContractAccessPolicy"
     /\ Holds("view_assetallocationprojectcontract")
     /\ Holds("change_assetallocationprojectcontract")
     /\ Holds("delete_assetallocationprojectcontract")
     /\ ~Holds("view_assetallocationprojectcontract_all")
     /\ ~Holds("change_assetallocationprojectcontract_all")
     /\ ~Holds("delete_assetallocationprojectcontract_all")) =>
        \A e \in AssetAllocationProjectContracts :
            (/\ CoveringGrants(e) # {}
             /\ \A ua \in CoveringGrants(e) : ua.mode = "OFFICER") =>
                /\ e.id \in resp.scope["EDIT"] <=> e.created_by = reqUser
                /\ e.id \in resp.scope["DELETE"] <=> e.created_by = reqUser
                /\ e.id \in resp.scope["READ"]

C13_Witness ==
    /\ resp.op = "AssetAllocationProjectContractAccessPolicy"
    /\ Holds("change_assetallocationprojectcontract")
    /\ ~Holds("change_assetallocationprojectcontract_all")
    /\ \E mine, other \in AssetAllocationProjectContracts :
        /\ mine.country_mission = other.country_mission
        /\ mine.acted_area = other.acted_area
        /\ mine.country_mission = "X" /\ mine.acted_area = "A"
        /\ mine.created_by = reqUser /\ other.created_by # reqUser
        /\ CoveringGrants(mine) # {}
        /\ \A ua \in CoveringGrants(mine) : ua.mode = "OFFICER"
        /\ mine.id \in resp.scope["EDIT"] \cap resp.scope["DELETE"]
        /\ other.id \in resp.scope["READ"] \ (resp.scope["EDIT"] \cup resp.scope["DELETE"])

\* C14: for a user without the "_all" permissions on usage allocations, a
\* usage allocation covered by grants that are all OFFICER grants is in the
\* EDIT or DELETE scope only if the user created it.
C14_OfficerEditsOwnUsage ==
    (/\ resp.op = "AssetAllocationUsageAccessPolicy"
     /\ ~Holds("view_assetallocationusage_all")
     /\ ~Holds("change_assetallocationusage_all")
     /\ ~Holds("delete_assetallocationusage_all")) =>
        \A e \in AssetAllocationUsages :
            (/\ CoveringGrants(e) # {}
             /\ \A ua \in CoveringGrants(e) : ua.mode = "OFFICER"
             /\ e.id \in resp.scope["EDIT"] \cup resp.scope["DELETE"]) =>
                e.created_by = reqUser

\* C15 (as stated): a DisposalPlan in the DELETE scope is in state DRAFT, for
\* every user, holders of delete_disposalplan_all included.
C15_DeleteOnlyDraft ==
    resp.op = "DisposalPlanAccessPolicy" =>
        \A e \in DisposalPlans :
            e.id \in resp.scope["DELETE"] => e.state = "DRAFT"

\* C15 (amended): a DisposalPlan in the DELETE scope of a user without
\* delete_disposalplan_all is in state DRAFT; the DELETE scope of a holder of
\* delete_disposalplan_all is every plan that is not DONE.
C15_DeleteOnlyDraftUnlessAll ==
    resp.op = "DisposalPlanAccessPolicy" =>
        \A e \in DisposalPlans :
            IF Holds("delete_disposalplan_all")
            THEN e.id \in resp.scope["DELETE"] <=> e.state # "DONE"
            ELSE e.id \in resp.scope["DELETE"] => e.state = "DRAFT"

C15_Witness ==
    /\ resp.op = "DisposalPlanAccessPolicy"
    /\ Holds("delete_disposalplan") /\ ~Holds("delete_disposalplan_all")
    /\ \E ua \in OwnAccesses :
        ua.mode = "MANAGER" /\ ua.country = NULL /\ ua.acted_area = NULL
    /\ resp.scope["DELETE"] = {e.id : e \in {p \in DisposalPlans : p.state = "DRAFT"}}
    /\ \E e \in DisposalPlans :
        e.state = "UNDER_MANAGER_VALIDATION" /\ e.id \in resp.scope["EDIT"]

\* C16: a DisposalPlan in state DONE is in neither the EDIT nor the DELETE
\* scope, whatever the grants and the permissions of the user.
C16_DoneIsFrozen ==
    resp.op = "DisposalPlanAccessPolicy" =>
        \A e \in DisposalPlans :
            e.state = "DONE" => e.id \notin resp.scope["EDIT"] \cup resp.scope["DELETE"]

C16_Witness ==
    /\ resp.op = "DisposalPlanAccessPolicy"
    /\ Holds("change_disposalplan_all") /\ Holds("delete_disposalplan_all")
    /\ \E ua \in OwnAccesses :
        ua.mode = "CONTROLLER" /\ ua.country = NULL /\ ua.acted_area = NULL
    /\ \E e \in DisposalPlans :
        /\ e.state = "DONE"
        /\ e.id \in resp.scope["READ"]
        /\ e.id \notin resp.scope["EDIT"] \cup resp.scope["DELETE"]
    /\ resp.scope["EDIT"] # {} /\ resp.scope["DELETE"] # {}

\* C17: for a holder of change_disposalplan_all the PLAY_TRANSITION scope is
\* exactly the plans whose state is not UNDER_FINANCE_VALIDATION, whatever
\* the holder's grants.
C17_AllPlaysExceptFinance ==
    (resp.op = "DisposalPlanAccessPolicy" /\ Holds("change_disposalplan_all")) =>
        resp.scope["PLAY_TRANSITION"] =
            {e.id : e \in {p \in DisposalPlans : p.state # "UNDER_FINANCE_VALIDATION"}}

C17_Witness ==
    /\ resp.op = "DisposalPlanAccessPolicy"
    /\ Holds("change_disposalplan_all")
    /\ \E ua \in OwnAccesses :
        ua.mode = "DISPOSAL_VALIDATOR" /\ ua.country = NULL /\ ua.acted_area = NULL
    /\ \E e \in DisposalPlans :
        e.state = "UNDER_FINANCE_VALIDATION" /\ e.id \notin resp.scope["PLAY_TRANSITION"]
    /\ \E e \in DisposalPlans :
        e.state = "DONE" /\ e.id \in resp.scope["PLAY_TRANSITION"]

\* The requesting user has grants, all of mode DISPOSAL_VALIDATOR, and holds
\* none of the "_all" permissions.
OnlyDisposalValidator ==
    /\ OwnAccesses # {}
    /\ \A ua \in OwnAccesses : ua.mode = "DISPOSAL_VALIDATOR"
    /\ \A p \in AllPerms : ~Holds(p)

\* C18: a user whose grants are all DISPOSAL_VALIDATOR grants and who holds no
\* "_all" permission has no plan in the EDIT or DELETE scope and may create a
\* DisposalPlan for no list of assets, whatever other permissions the user
\* holds, while the plans the grants cover stay in the READ scope (given
\* view_disposalplan) and in the PLAY_TRANSITION scope.
C18_ValidatorNeverEditsOrCreates ==
    OnlyDisposalValidator =>
        /\ resp.op = "DisposalPlanAccessPolicy" =>
            /\ resp.scope["EDIT"] = {}
            /\ resp.scope["DELETE"] = {}
            /\ \A e \in DisposalPlans :
                CoveringGrants(e) # {} =>
                    /\ e.id \in resp.scope["PLAY_TRANSITION"]
                    /\ Holds("view_disposalplan") => e.id \in resp.scope["READ"]
        /\ resp.op = "user_can_create_disposal_plan" =>
            \A l \in AssetLists : ~resp.can[l]

-----------------------------------------------------------------------------
(* Properties of DisposalPlanAccessPolicy.scope_fields, checked under
   SpecFields *)

ReadOnly(fields) == {f \in DOMAIN fields : fields[f]}

DoneReadOnly ==
    {"disposed_date", "reason", "removal_plan", "recycling_method",
     "reimbursed_amount", "reimbursed_currency", "recipient_name"}

\* C19 (as stated): a call for a DRAFT plan returns every field writable, also
\* after a call for a DONE plan; a call for a DONE plan returns disposed_date
\* and the six reason..recipient fields read-only.
C19_NoResidualState ==
    resp.op = "scope_fields" =>
        /\ (resp.instance.kind = "DisposalPlan" /\ resp.instance.state = "DRAFT") =>
            ReadOnly(resp.fields) = {}
        /\ (resp.instance.kind = "DisposalPlan" /\ resp.instance.state = "DONE") =>
            ReadOnly(resp.fields) = DoneReadOnly

\* C19 (amended): scope_fields only sets flags on the Field objects it is
\* handed.  On the fields of a new serializer a DRAFT plan leaves every field
\* writable and a DONE plan marks disposed_date and the six reason..recipient
\* fields; no call clears a flag, so on the fields a DONE call returned a later
\* DRAFT call leaves those seven read-only.
C19_FlagsSetNeverCleared ==
    resp.op = "scope_fields" =>
        /\ ReadOnly(resp.input) \subseteq ReadOnly(resp.fields)
        /\ (resp.instance.kind = "DisposalPlan" /\ resp.instance.state = "DRAFT") =>
            ReadOnly(resp.fields) = ReadOnly(resp.input)
        /\ (resp.instance.kind = "DisposalPlan" /\ resp.instance.state = "DONE") =>
            ReadOnly(resp.fields) = DoneReadOnly
        /\ (resp.fresh /\ resp.instance.kind = "DisposalPlan" /\ resp.instance.state = "DRAFT") =>
            ReadOnly(resp.fields) = {}
        /\ (/\ ~resp.fresh
            /\ resp.before.kind = "DisposalPlan" /\ resp.before.state = "DONE") =>
            ReadOnly(resp.fields) = DoneReadOnly

C19_Witness ==
    /\ resp.op = "scope_fields"
    /\ resp.before.kind = "DisposalPlan" /\ resp.before.state = "DONE"
    /\ resp.instance.kind = "DisposalPlan" /\ resp.instance.state = "DRAFT"
    /\ ~resp.fresh
    /\ ReadOnly(resp.fields) = DoneReadOnly

-----------------------------------------------------------------------------
(* Properties of the Asset transition hook, checked under SpecScope *)

\* Grant ua matches the country and the derived area of asset e: each axis of
\* the grant is NULL or equals the asset's.
Matches(ua, e) ==
    /\ ua.country \in {NULL, e.country_mission}
    /\ ua.acted_area \in {NULL, e.acted_area}

StaffTransitions ==
    {"START_DISPOSAL", "CANCEL_DISPOSAL", "ASSIGN", "ACCEPT_ASSIGN",
     "ACCEPT_UNASSIGN", "REJECT", "UNASSIGN", "SEND_MAINTENANCE",
     "END_MAINTENANCE_TO_STOCK", "SEND_REPAIR", "END_REPAIR_TO_STOCK"}

\* C20: for a user without change_asset_all_transitions the hook allows a
\* transition of an asset exactly when the user holds an OFFICER, MANAGER or
\* CONTROLLER grant that matches the asset and the transition is
\* START_DISPOSAL, CANCEL_DISPOSAL or one of the nine allow-listed names, and
\* denies it otherwise; DISPOSE is denied, and so is every transition of an
\* asset whose matching grants are all validator grants.
C20_TransitionHook ==
    (resp.op = "scope_workflow_transition_check" /\ ~Holds(AllTransitionsPerm)) =>
        \A t \in TransitionNames :
            /\ resp.allowed[t] =
                {id \in DOMAIN Assets :
                    /\ t \in StaffTransitions
                    /\ \E ua \in OwnAccesses :
                        /\ ua.mode \in {"OFFICER", "MANAGER", "CONTROLLER"}
                        /\ Matches(ua, Assets[id])}
            /\ resp.denied[t] = DOMAIN Assets \ resp.allowed[t]
            /\ t = "DISPOSE" => resp.allowed[t] = {}
            /\ \A id \in DOMAIN Assets :
                (\A ua \in OwnAccesses :
                    Matches(ua, Assets[id]) =>
                        ua.mode \in {"INVENTORY_VALIDATOR", "DISPOSAL_VALIDATOR"})
                    => id \notin resp.allowed[t]

C20_Witness ==
    /\ resp.op = "scope_workflow_transition_check"
    /\ reqUser # NULL /\ ~Holds(AllTransitionsPerm)
    /\ \E ua, ub \in OwnAccesses :
        /\ OwnAccesses = {ua, ub}
        /\ ua.mode = "OFFICER" /\ ua.country = "X" /\ ua.acted_area = "A"
        /\ ub.mode = "DISPOSAL_VALIDATOR" /\ ub.country = NULL /\ ub.acted_area = NULL
    /\ \E id \in DOMAIN Assets :
        /\ Assets[id].country_mission = "X" /\ Assets[id].acted_area = "A"
        /\ id \in resp.allowed["START_DISPOSAL"] \cap resp.allowed["SEND_REPAIR"]
        /\ id \in resp.denied["DISPOSE"] \cap resp.denied["END_DISPOSAL"]
    /\ \E id \in DOMAIN Assets :
        /\ Assets[id].country_mission = "Y"
        /\ \A t \in TransitionNames : id \in resp.denied[t]

-----------------------------------------------------------------------------
(* Properties of the DisposalPlan and Inventory transition hooks, checked
   under SpecScope *)

\* C21: for a user without change_disposal_plan_all_transitions the
\* DisposalPlan hook allows a transition out of UNDER_FINANCE_VALIDATION only
\* if a DISPOSAL_VALIDATOR grant of the user matches the plan; a holder of
\* change_asset_all whose matching grants are none of that mode is denied.
C21_FinanceValidationNeedsValidator ==
    (/\ resp.op = "DisposalPlanAccessPolicy.scope_workflow_transition_check"
     /\ ~Holds("change_disposal_plan_all_transitions")) =>
        \A t \in DisposalPlanTransitionNames, e \in DisposalPlans :
            e.state = "UNDER_FINANCE_VALIDATION" =>
                \/ \E ua \in OwnAccesses :
                        ua.mode = "DISPOSAL_VALIDATOR" /\ Matches(ua, e)
                \/ e.id \notin resp.allowed[t] /\ e.id \in resp.denied[t]

C21_Witness ==
    /\ resp.op = "DisposalPlanAccessPolicy.scope_workflow_transition_check"
    /\ Holds("change_asset_all") /\ ~Holds("change_disposal_plan_all_transitions")
    /\ \E ua, ub \in OwnAccesses :
        /\ OwnAccesses = {ua, ub}
        /\ ua.mode = "DISPOSAL_VALIDATOR" /\ ua.country = "X" /\ ua.acted_area = NULL
        /\ ub.mode = "MANAGER" /\ ub.country = "Y" /\ ub.acted_area = NULL
    /\ \E t \in DisposalPlanTransitionNames, ex, ey \in DisposalPlans :
        /\ ex.state = "UNDER_FINANCE_VALIDATION"
        /\ ey.state = "UNDER_FINANCE_VALIDATION"
        /\ ex.country_mission = "X" /\ ex.id \in resp.allowed[t]
        /\ ey.country_mission = "Y" /\ ey.id \in resp.denied[t] \ resp.allowed[t]

\* C25: for a user without change_disposal_plan_all_transitions and without
\* change_asset_all, the decision of the DisposalPlan hook is the same in
\* whatever order the matching grants are enumerated, and it is to allow
\* exactly when some matching grant, as the user's only grant, allows.
C25_OrderIndependent ==
    (/\ resp.op = "DisposalPlanAccessPolicy.scope_workflow_transition_check"
     /\ ~Holds("change_disposal_plan_all_transitions")
     /\ ~Holds("change_asset_all")) =>
        \A t \in DisposalPlanTransitionNames, e \in DisposalPlans :
            /\ ~(e.id \in resp.allowed[t] /\ e.id \in resp.denied[t])
            /\ e.id \in resp.allowed[t] <=>
                \E ua \in OwnAccesses :
                    /\ Matches(ua, e)
                    /\ DisposalPlanAccessPolicy_scope_workflow_transition_check(
                            {ua}, e, [name |-> t, source_state |-> e.state], reqUser) = {TRUE}

\* C22: for a user without change_inventory_all_transitions the Inventory
\* hook allows a transition exactly when some grant matching the inventory is
\* INVENTORY_VALIDATOR with TO_CORRECT or VALIDATE, or OFFICER with SUBMIT, or
\* MANAGER or CONTROLLER; with no such grant (only DISPOSAL_VALIDATOR grants
\* matching, say) it denies.
C22_InventoryTransitionHook ==
    (/\ resp.op = "InventoryAccessPolicy.scope_workflow_transition_check"
     /\ ~Holds("change_inventory_all_transitions")) =>
        \A t \in InventoryTransitionNames, e \in Inventories :
            e.id \in resp.allowed[t] <=>
                \E ua \in OwnAccesses :
                    /\ Matches(ua, e)
                    /\ \/ ua.mode = "INVENTORY_VALIDATOR" /\ t \in {"TO_CORRECT", "VALIDATE"}
                       \/ ua.mode = "OFFICER" /\ t = "SUBMIT"
                       \/ ua.mode \in {"MANAGER", "CONTROLLER"}

C22_Witness ==
    /\ resp.op = "InventoryAccessPolicy.scope_workflow_transition_check"
    /\ reqUser # NULL /\ ~Holds("change_inventory_all_transitions")
    /\ \E ua, ub \in OwnAccesses :
        /\ OwnAccesses = {ua, ub}
        /\ ua.mode = "OFFICER" /\ ua.country = "X" /\ ua.acted_area = "A"
        /\ ub.mode = "DISPOSAL_VALIDATOR" /\ ub.country = NULL /\ ub.acted_area = NULL
    /\ \E e \in Inventories :
        /\ e.country_mission = "X" /\ e.acted_area = "A"
        /\ e.id \in resp.allowed["SUBMIT"]
        /\ e.id \notin resp.allowed["VALIDATE"] \cup resp.allowed["TO_CORRECT"]
                            \cup resp.allowed["REOPEN"]
    /\ \E e \in Inventories :
        /\ e.country_mission = "Y"
        /\ \A t \in InventoryTransitionNames : e.id \notin resp.allowed[t]

-----------------------------------------------------------------------------
(* Properties of the Inventory statements, checked under SpecScope *)

\* The permission a statement asks for the view action h.
CoarsePermission(h) ==
    CASE h = "create" -> "add_inventory"
      [] h \in {"update", "partial_update", "play_transition"} -> "change_inventory"
      [] h = "destroy" -> "delete_inventory"

\* The instance check of the view action h on inventory e.
InstanceCheck(h, e) ==
    CASE h = "create" ->
            user_can_create_inventory(accesses, reqUser, e.country_mission, e.acted_area)
      [] h \in {"update", "partial_update", "play_transition"} ->
            e.id \in IdsOf(InventoryAccessPolicy_get_qs_for_user(accesses, reqUser, "EDIT"))
      [] h = "destroy" ->
            e.id \in IdsOf(InventoryAccessPolicy_get_qs_for_user(accesses, reqUser, "DELETE"))

\* C23: create, update, partial_update, play_transition and destroy reach the
\* handler only for an authenticated user who holds the permission of the
\* statement and passes its instance check; an anonymous user, a user without
\* that permission and a view action that no statement names reach no
\* handler, so nothing is created, changed or deleted for them.
C23_FailClosedConjunctive ==
    resp.op = "InventoryAccessPolicy.statements" =>
        /\ \A h \in {"create", "update", "partial_update", "play_transition", "destroy"} :
            \A e \in Inventories :
                e.id \in resp.allowed[h] =>
                    /\ reqUser # NULL
                    /\ Holds(CoarsePermission(h))
                    /\ InstanceCheck(h, e)
        /\ resp.allowed["metadata"] = {}
        /\ reqUser = NULL => \A h \in InventoryHttpActions : resp.allowed[h] = {}
        /\ \A e \in Inventories :
            e.state = "VALIDATED" =>
                e.id \notin resp.allowed["update"] \cup resp.allowed["destroy"]

C23_Witness ==
    /\ resp.op = "InventoryAccessPolicy.statements"
    /\ Holds("add_inventory") /\ Holds("change_inventory") /\ Holds("delete_inventory")
    /\ ~Holds("add_inventory_all") /\ ~Holds("change_inventory_all")
    /\ \E ua \in OwnAccesses :
        /\ OwnAccesses = {ua}
        /\ ua.mode = "OFFICER" /\ ua.country = "X" /\ ua.acted_area = NULL
    /\ \E ex, ey \in Inventories :
        /\ ex.country_mission = "X" /\ ex.state = "ON_GOING"
        /\ ex.id \in resp.allowed["create"] \cap resp.allowed["update"]
                        \cap resp.allowed["destroy"]
        /\ ey.country_mission = "Y"
        /\ ey.id \in resp.allowed["retrieve"]
        /\ ey.id \notin resp.allowed["create"] \cup resp.allowed["update"]
                            \cup resp.allowed["destroy"]

-----------------------------------------------------------------------------
(* Properties of the inventory PDF export, checked under SpecExport *)

\* A step that adds a job is an export_pdf answered 200: it adds one job of
\* type EXPORT_ASSET_INVENTORY, WAITING and without attachment, and hands its
\* id to the task once; every export_pdf answered 200 is such a step.
ExportPdfStep ==
    LET new == Len(jobs') IN
    /\ Len(jobs') \in {Len(jobs), Len(jobs) + 1}
    /\ (resp'.op = "export_pdf" /\ resp'.status = "HTTP_200_OK") <=> Len(jobs') = Len(jobs) + 1
    /\ Len(jobs') = Len(jobs) + 1 =>
        /\ resp'.job = new
        /\ jobs'[new].type = "EXPORT_ASSET_INVENTORY"
        /\ jobs'[new].status = "WAITING"
        /\ jobs'[new].attachments = 0
        /\ tasks' = Append(tasks, new)
        /\ \A j \in DOMAIN jobs : jobs'[j] = jobs[j]

\* A step that changes a job is a run of the task on a WAITING job, and
\* leaves it DONE with progress 100 and one attachment, or ERROR with
\* progress 100.
ExportTaskStep ==
    \A j \in DOMAIN jobs :
        jobs'[j] # jobs[j] =>
            /\ resp'.op = "export_assets_inventory" /\ resp'.job = j
            /\ jobs[j].status = "WAITING"
            /\ \/ /\ jobs'[j].status = "DONE"
                  /\ jobs'[j].progress = 100
                  /\ jobs'[j].attachments = 1
               \/ /\ jobs'[j].status = "ERROR"
                  /\ jobs'[j].progress = 100

\* A job is WAITING exactly while its task waits, once, for a worker.
ExportJobsInv ==
    \A j \in DOMAIN jobs :
        /\ jobs[j].status \in {"WAITING", "DONE", "ERROR"}
        /\ Occurrences(tasks, j) = IF jobs[j].status = "WAITING" THEN 1 ELSE 0
        /\ jobs[j].status = "WAITING" => jobs[j].attachments = 0
        /\ jobs[j].status = "DONE" => jobs[j].attachments = 1 /\ jobs[j].progress = 100
        /\ jobs[j].status = "ERROR" => jobs[j].progress = 100

\* C24: export_pdf creates exactly one EXPORT_ASSET_INVENTORY job, WAITING
\* and without attachment, and enqueues export_assets_inventory once with its
\* id; every run of the task takes a WAITING job to DONE with progress 100
\* and exactly one attachment, or to ERROR with progress 100, and no job is
\* WAITING once its task has run.
C24_ExportJobLifecycle ==
    /\ [][ExportPdfStep /\ ExportTaskStep]_vars
    /\ []ExportJobsInv

C24_Witness ==
    /\ Len(jobs) = 2
    /\ tasks = << >>
    /\ jobs[1].status = "ERROR" /\ jobs[1].attachments = 0
    /\ jobs[2].status = "DONE" /\ jobs[2].attachments = 1 /\ jobs[2].progress = 100

-----------------------------------------------------------------------------
(* Properties relating the scopes, the hooks and the grants *)

\* C26: for every asset and every grant of the user, the area and country
\* terms of AssetAccessPolicy.get_qs_for_user hold of the asset exactly when
\* _get_accesses_for_country_and_area returns the grant for the asset's
\* country and derived area; so a user whose grants are all MANAGER grants
\* (and whose scopes come from the grants) plays every allow-listed
\* transition of each asset of the EDIT scope.
C26_SameCoverage ==
    resp.op = "scope_workflow_transition_check" =>
        /\ \A id \in DOMAIN Assets, ua \in OwnAccesses :
            (AreaTerm(ua, Assets[id]) /\ CountryTerm(ua, Assets[id])) <=>
                ua \in get_accesses_for_country_and_area(
                    accesses, reqUser, Assets[id].country_mission, Assets[id].acted_area)
        /\ (/\ ~Holds("change_asset_all") /\ ~Holds(PurchaseNumberPerm)
            /\ ~Holds(AllTransitionsPerm)
            /\ \A ua \in OwnAccesses : ua.mode = "MANAGER") =>
                \A id \in Range(IdSeq(AssetAccessPolicy_get_qs_for_user(accesses, reqUser, "EDIT"))) :
                    \A t \in Range(allowed_transitions) :
                        id \in resp.allowed[t]

\* The ids of the DELETE scope of the actor of the last request, over store.
DeleteScopeIds(store) ==
    IdsOf(AssetUserAccessAccessPolicy_get_qs_for_user(store, reqUser', "DELETE"))

\* A delete_many step by an actor the policy lets through: it answers 200;
\* the rows it removes are requested ids of the actor's DELETE scope, every
\* other row stays as it was; the first requested id is removed exactly when
\* it is in that scope, and a second one exactly when it is in the scope over
\* the rows left by the first; num_deleted counts the rows removed.
DeleteManyStep ==
    (resp'.op = "delete_many" /\ resp'.status # "NotAllowed") =>
        LET ids == resp'.access_ids
            removed == accesses \ accesses'
        IN  /\ resp'.status = "HTTP_200_OK"
            /\ accesses' \subseteq accesses
            /\ IdsOf(removed) \subseteq Range(ids) \cap DeleteScopeIds(accesses)
            /\ resp'.num_deleted = Cardinality(removed)
            /\ Len(ids) >= 1 =>
                (ids[1] \in IdsOf(removed) <=> ids[1] \in DeleteScopeIds(accesses))
            /\ Len(ids) = 2 =>
                LET left == IF ids[1] \in DeleteScopeIds(accesses)
                            THEN {g \in accesses : g.id # ids[1]}
                            ELSE accesses
                IN  ids[2] \in IdsOf(removed) <=>
                        \/ ids[2] = ids[1] /\ ids[1] \in IdsOf(removed)
                        \/ ids[2] \in DeleteScopeIds(left)

\* C27: delete_many deletes exactly the requested grants that are in the
\* actor's DELETE scope when they are processed, leaves every other grant as
\* it was, skips out-of-scope, nonexistent and repeated ids without an error,
\* and returns the number of grants removed as num_deleted.
C27_DeleteManyFrame == [][DeleteManyStep]_vars

C27_Witness ==
    /\ resp.op = "delete_many" /\ resp.status = "HTTP_200_OK"
    /\ Len(resp.access_ids) = 2
    /\ resp.access_ids[1] # resp.access_ids[2]
    /\ resp.num_deleted = 1
    /\ resp.access_ids[1] \notin IdsOf(accesses)
    /\ resp.access_ids[1] < nextId
    /\ resp.access_ids[2] \in IdsOf(accesses)

\* The new grant is within what the creator's grant g lets them exercise or
\* supervise.
Dominates(g, row) ==
    /\ g.mode \in {row.mode, "MANAGER", "CONTROLLER"}
    /\ g.country \in {NULL, row.country}
    /\ g.acted_area \in {NULL, row.acted_area}

CoveredAssets(store) ==
    {id \in DOMAIN Assets : \E ua \in store : Covers(ua, Assets[id])}

\* A request by an actor without add_assetuseraccess_all: every row it
\* created is dominated by a grant the actor held when the row was created
\* (a row of the store with a smaller id), no row is altered, and no asset
\* becomes covered.
NoEscalationStep ==
    (resp'.op \in {"create_many", "delete_many"}
     /\ ~("add_assetuseraccess_all" \in perms[reqUser'])) =>
        /\ \A row \in accesses' \ accesses :
            /\ resp'.op = "create_many"
            /\ row.id >= nextId
            /\ \E g \in UserAccesses(accesses', reqUser') :
                g.id < row.id /\ Dominates(g, row)
        /\ CoveredAssets(accesses') \subseteq CoveredAssets(accesses)

\* C30: in a sequence of create_many and delete_many requests by actors
\* without add_assetuseraccess_all, every created grant is dominated by a
\* grant its creator held at creation time (mode equal or MANAGER/CONTROLLER,
\* country NULL or equal, area NULL or equal), and the set of assets covered
\* by at least one grant never grows.
C30_NoEscalation == [][NoEscalationStep]_vars

C30_Witness ==
    /\ resp.op = "create_many" /\ resp.status = "HTTP_201_CREATED"
    /\ reqUser = "alice"
    /\ resp.username = "bob" /\ resp.mode = "OFFICER"
    /\ resp.country = UnknownCountryCode
    /\ \E row \in accesses :
        /\ row.user = "bob" /\ row.country = NULL /\ row.mode = "OFFICER"
        /\ row.id = nextId - 1
    /\ \E g \in accesses : g.user = "alice" /\ g.mode = "MANAGER" /\ g.country = NULL

\* C28: whenever an asset is in the user's EDIT scope and set_readonly_fields
\* leaves a field other than purchase_number writable on it, the user holds
\* change_asset_all or a grant that is not a validator grant and whose
\* geography covers the asset.
C28_NoFullEditOutsideGeography ==
    (resp.op = "set_readonly_fields" /\ resp.asset = "instance") =>
        \A e \in Range(AssetAccessPolicy_get_qs_for_user(accesses, reqUser, "EDIT")) :
            (\E f \in AssetFields \ editable_fields : ~resp.fields[f]) =>
                \/ Holds("change_asset_all")
                \/ \E ua \in OwnAccesses :
                    /\ ua.mode \notin {"INVENTORY_VALIDATOR", "DISPOSAL_VALIDATOR"}
                    /\ Covers(ua, e)

\* The policies whose rows are not the grants themselves.
DataPolicies == EntityPolicies \ {"AssetUserAccessAccessPolicy"}

\* get_qs_for_user of the named policy, as the set of ids it returns.
EntityScope(policy, store, action) ==
    CASE policy = "AssetAccessPolicy" ->
            Range(IdSeq(AssetAccessPolicy_get_qs_for_user(store, reqUser, action)))
      [] policy = "AssetAllocationProjectContractAccessPolicy" ->
            IdsOf(AssetAllocationProjectContractAccessPolicy_get_qs_for_user(store, reqUser, action))
      [] policy = "AssetAllocationPremisesAccessPolicy" ->
            IdsOf(AssetAllocationPremisesAccessPolicy_get_qs_for_user(store, reqUser, action))
      [] policy = "AssetAllocationUsageAccessPolicy" ->
            IdsOf(AssetAllocationUsageAccessPolicy_get_qs_for_user(store, reqUser, action))
      [] policy = "InventoryAccessPolicy" ->
            IdsOf(InventoryAccessPolicy_get_qs_for_user(store, reqUser, action))
      [] policy = "DisposalPlanAccessPolicy" ->
            IdsOf(DisposalPlanAccessPolicy_get_qs_for_user(store, reqUser, action))
      [] policy = "AssetMaintenanceAccessPolicy" ->
            IdsOf(AssetMaintenanceAccessPolicy_get_qs_for_user(store, reqUser, action))

====
